---- MODULE Spec2Model ----
(***************************************************************************)
(* A model of squirmy's table-bound accessor (src/src/squirmy/             *)
(* querybuilder.ts): the transaction coordinator withTransaction, create   *)
(* with its relation fan-out, input validation, and the many-to-many       *)
(* reconciliation of a junction table.  Every SQL statement the code       *)
(* awaits is one step of the model; the database and the pg pool are the   *)
(* environment and may fail any statement.                                 *)
(***************************************************************************)
EXTENDS Integers, Sequences, FiniteSets, TLC

(***************************************************************************)
(* Bounds of the model.                                                    *)
(***************************************************************************)
\* related identifiers a junction row may point to
NumTargets == 3
\* source rows whose junction rows are reconciled
NumSources == 2
\* longest targetIds list a caller passes
MaxLen == 2
\* most rows the junction table holds at once
MaxRows == 3

\* connections of the pg pool (its max option)
PoolSize == 3
\* rows the accessors insert over a behaviour (identifiers 1..MaxIds)
MaxIds == 3
\* most entries of the relations map passed to create
MaxRels == 2
\* primary-key values the callers of the cached accessor use
NumKeys == 2

\* keys of the table findAll and paginate read
MaxQRows == 3
\* largest page number a caller asks for
MaxPage == 3
\* largest pageSize, limit and offset a caller passes
MaxPageSize == 2
\* longest relations list passed to findAllWithRelations
MaxLoad == 1
\* callers that run create at the same time
NumCallers == 2
\* most related records in the hasMany payload of a concurrent create
MaxPayload == 1

Targets == 1..NumTargets
Sources == 1..NumSources
Ids == 1..MaxIds
Conns == 1..PoolSize

VARIABLES
  junction,   \* the junction table: <<source, target>> -> number of such rows
  m2m,        \* the running call of a many-to-many method, or the idle caller
  stack,      \* the running accessor call and the related create it awaits
  inUse,      \* connections checked out of the pool
  releases,   \* connection -> release() calls since it was checked out
  committed,  \* committed rows of the model tables
  pending,    \* connection -> rows written in its open transaction
  nextId,     \* next row identifier the database hands out
  log,        \* statements the running top-level call has sent so far
  raisedRows, \* rows inserted by a create that relation resolution made raise
  catalog,    \* table name -> the columns CREATE TABLE gave it, or <<>>
  tcall,      \* the running create on a table of the typed schema
  tableRows,  \* key -> content of the row the table holds under it, or None
  cache,      \* key -> the record the accessor's cache holds for it, or None
  call,       \* the running call of the accessor, or the idle caller
  lastCreated, \* the record the last call returned, if that call was a create
  relRows,    \* table -> key -> content of the row stored under it, or None
  rcall,      \* the running update or updateMany, or the idle caller
  qrows,      \* key -> content of the row findAll's table holds, or None
  qcall,      \* the running findAll or paginate, or the idle caller
  marks,      \* table -> key -> None, "live" or "deleted" (deletedAt set)
  mcall,      \* the running softDelete or restore, or the idle caller
  users,      \* keys of the rows of the User table
  posts,      \* key -> userid of the Post row under it, or 0 for no row
  lcall,      \* the running findAllWithRelations, or the idle caller
  dbTables,   \* models whose table exists in the database
  dcall,      \* the running dropTables, or the idle caller
  loaded,     \* the author relation of Post in the schema the engine loaded
  postTable,  \* the constraints the Post table was created with, or NoTable
  ctcall,     \* the running createTableIfNotExists, or the idle caller
  bstmt,      \* the statement and parameter list the last write built
  creates,    \* caller -> the frames of its running create: <<create, related create>>
  race,       \* two concurrent updateManyToManyRelation calls for one source
  strategy    \* one reconciliation run through both strategies

m2mVars == <<m2m>>
opVars == <<stack, inUse, releases, committed, pending, nextId, log, raisedRows>>
typedVars == <<catalog, tcall>>
\* the variables of the parts of the model that come after create's
\* transaction: an action of the parts above leaves them alone
cacheVars == <<tableRows, cache, call, lastCreated>>
relVars == <<relRows, rcall>>
queryVars == <<qrows, qcall>>
markVars == <<marks, mcall>>
loadVars == <<users, posts, lcall>>
dropVars == <<dbTables, dcall>>
tableVars == <<loaded, postTable, ctcall>>
bindVars == <<bstmt>>
poolVars == <<creates>>
raceVars == <<race>>
strategyVars == <<strategy>>
lastVars == <<tableVars, bindVars, poolVars, raceVars, strategyVars>>
laterVars == <<queryVars, markVars, loadVars, dropVars, lastVars>>
recordVars == <<typedVars, cacheVars, relVars, laterVars>>
earlierVars == <<junction, m2m, opVars, typedVars, cacheVars, relVars>>
settledVars == <<earlierVars, queryVars, markVars, loadVars, dropVars>>
exceptJunction ==
  <<m2m, opVars, typedVars, cacheVars, relVars, queryVars, markVars, loadVars,
    dropVars>>
vars == <<junction, m2m, opVars, recordVars>>

(***************************************************************************)
(* Sequence helpers (Array.prototype.filter / includes).                   *)
(***************************************************************************)
Range(s) == {s[i] : i \in 1..Len(s)}

Includes(s, x) == x \in Range(s)

RECURSIVE FilterNotIn(_, _)
\* s.filter((id) => !other.includes(id)): order and repetitions of s are kept
FilterNotIn(s, other) ==
  IF s = <<>> THEN <<>>
  ELSE IF Includes(other, Head(s)) THEN FilterNotIn(Tail(s), other)
       ELSE <<Head(s)>> \o FilterNotIn(Tail(s), other)

RECURSIVE Count(_, _)
Count(s, x) ==
  IF s = <<>> THEN 0
  ELSE (IF Head(s) = x THEN 1 ELSE 0) + Count(Tail(s), x)

RECURSIVE Repeat(_, _)
Repeat(x, n) == IF n = 0 THEN <<>> ELSE <<x>> \o Repeat(x, n - 1)

Lists(S, n) == UNION {[1..k -> S] : k \in 0..n}

(***************************************************************************)
(* The junction table.  createTableIfNotExists marks only a column named   *)
(* id as PRIMARY KEY, so a junction table (userid, roleId) carries no      *)
(* uniqueness constraint and may hold the same pair more than once.        *)
(***************************************************************************)
EmptyJunction == [p \in Ids \X Targets |-> 0]

RECURSIVE TotalFrom(_, _)
TotalFrom(j, cells) ==
  IF cells = {} THEN 0
  ELSE LET c == CHOOSE x \in cells : TRUE
       IN j[c] + TotalFrom(j, cells \ {c})

TotalRows(j) == TotalFrom(j, Ids \X Targets)

RECURSIVE SelectFrom(_, _, _)
\* SELECT relatedKey FROM junction WHERE foreignKey = s: one element per row
SelectFrom(j, s, t) ==
  IF t > NumTargets THEN <<>>
  ELSE Repeat(t, j[<<s, t>>]) \o SelectFrom(j, s, t + 1)

SelectRelated(j, s) == SelectFrom(j, s, 1)

\* INSERT INTO junction (foreignKey, relatedKey) VALUES (s, t)
InsertPair(j, s, t) == [j EXCEPT ![<<s, t>>] = @ + 1]

\* DELETE FROM junction WHERE relatedKey = t (the foreignKey condition left out)
DeleteByTarget(j, s, t) == [p \in DOMAIN j |-> IF p[2] = t THEN 0 ELSE j[p]]

\* DELETE FROM junction WHERE foreignKey = s AND relatedKey = t
DeletePair(j, s, t) == [j EXCEPT ![<<s, t>>] = 0]

(***************************************************************************)
(* The relations a many-to-many method is called with: a configured one    *)
(* (User.roles of the example schema) and one lacking junctionTable.       *)
(***************************************************************************)
RolesRelation ==
  [type |-> "manyToMany", model |-> "Role", foreignKey |-> "userid",
   junctionTable |-> "UserRoles", relatedKey |-> "roleId"]

GroupsRelation ==
  [type |-> "manyToMany", model |-> "Group", foreignKey |-> "userid",
   junctionTable |-> "", relatedKey |-> "groupId"]

M2MRelations == {RolesRelation, GroupsRelation}

InvalidM2MConfigNever(relation) == FALSE

\* !relation.junctionTable || !relation.relatedKey
InvalidM2MConfig(relation) ==
  relation.junctionTable = "" \/ relation.relatedKey = ""

(***************************************************************************)
(* updateManyToManyRelation (incremental diff).                            *)
(***************************************************************************)
ToAddAll(targetIds, existingIds) == targetIds

\* targetIds.filter((id) => !existingIds.includes(id))
ToAdd(targetIds, existingIds) == FilterNotIn(targetIds, existingIds)

ToRemoveNone(targetIds, existingIds) == <<>>

\* existingIds.filter((id) => !targetIds.includes(id))
ToRemove(targetIds, existingIds) == FilterNotIn(existingIds, targetIds)

Idle ==
  [pc |-> "idle", op |-> "none", source |-> 0, targetIds |-> <<>>,
   existingIds |-> <<>>, toAdd |-> <<>>, toRemove |-> <<>>,
   log |-> <<>>, second |-> FALSE, before |-> EmptyJunction]

Stmt(kind, s, t) == [kind |-> kind, source |-> s, target |-> t]

\* where the update loops stand once toAdd and toRemove are what is left
LoopPc(toAdd, toRemove) ==
  IF toAdd # <<>> THEN "insert"
  ELSE IF toRemove # <<>> THEN "delete"
  ELSE "done"

\* the call is admitted when the rows it inserts fit the table's bound
Fits(j, n) == TotalRows(j) + n <= MaxRows

UpdateCall(relation, s, ids, second) ==
  /\ Fits(junction, Len(ToAdd(ids, SelectRelated(junction, s))))
  /\ m2m' = [Idle EXCEPT
               !.pc = IF InvalidM2MConfig(relation) THEN "failed" ELSE "select",
               !.op = "update", !.source = s, !.targetIds = ids,
               !.second = second,
               !.before = IF second THEN junction ELSE EmptyJunction]
  /\ UNCHANGED junction

\* a caller starts updateManyToManyRelation(relation, sourceId, targetIds)
M2MUpdateStart ==
  /\ UNCHANGED <<opVars, recordVars>>
  /\ m2m.pc = "idle"
  /\ \E relation \in M2MRelations, s \in Sources, ids \in Lists(Targets, MaxLen) :
       UpdateCall(relation, s, ids, FALSE)

\* the caller reconciles the same source to the same target set once more
M2MUpdateAgain ==
  /\ UNCHANGED <<opVars, recordVars>>
  /\ m2m.pc = "done"
  /\ m2m.op = "update"
  /\ ~m2m.second
  /\ \E ids \in Lists(Targets, MaxLen) :
       /\ Range(ids) = Range(m2m.targetIds)
       /\ UpdateCall(RolesRelation, m2m.source, ids, TRUE)

\* const existingRelations = await this.query(SELECT ...)
M2MSelect ==
  /\ UNCHANGED <<opVars, recordVars>>
  /\ m2m.pc = "select"
  /\ LET existingIds == SelectRelated(junction, m2m.source)
         toAdd == ToAdd(m2m.targetIds, existingIds)
         toRemove == ToRemove(m2m.targetIds, existingIds)
     IN m2m' = [m2m EXCEPT
                  !.existingIds = existingIds,
                  !.toAdd = toAdd, !.toRemove = toRemove,
                  !.log = Append(@, Stmt("SELECT", m2m.source, 0)),
                  !.pc = LoopPc(toAdd, toRemove)]
  /\ UNCHANGED junction

\* for (const id of toAdd) await this.query(INSERT ...)
M2MInsert ==
  /\ UNCHANGED <<opVars, recordVars>>
  /\ m2m.pc = "insert"
  /\ m2m.op = "update"
  /\ LET id == Head(m2m.toAdd)
     IN /\ junction' = InsertPair(junction, m2m.source, id)
        /\ m2m' = [m2m EXCEPT
                     !.toAdd = Tail(@),
                     !.log = Append(@, Stmt("INSERT", m2m.source, id)),
                     !.pc = LoopPc(Tail(m2m.toAdd), m2m.toRemove)]

\* for (const id of toRemove) await this.query(DELETE ...)
M2MDelete ==
  /\ UNCHANGED <<opVars, recordVars>>
  /\ m2m.pc = "delete"
  /\ LET id == Head(m2m.toRemove)
     IN /\ junction' = DeletePair(junction, m2m.source, id)
        /\ m2m' = [m2m EXCEPT
                     !.toRemove = Tail(@),
                     !.log = Append(@, Stmt("DELETE", m2m.source, id)),
                     !.pc = LoopPc(<<>>, Tail(m2m.toRemove))]

(***************************************************************************)
(* createManyToManyRelation: one INSERT per element of targetIds.          *)
(***************************************************************************)
M2MCreateStart ==
  /\ UNCHANGED <<opVars, recordVars>>
  /\ m2m.pc = "idle"
  /\ \E relation \in M2MRelations, s \in Sources, ids \in Lists(Targets, MaxLen) :
       /\ Fits(junction, Len(ids))
       /\ m2m' = [Idle EXCEPT
                    !.pc = IF InvalidM2MConfig(relation) THEN "failed"
                           ELSE LoopPc(ids, <<>>),
                    !.op = "create", !.source = s, !.targetIds = ids,
                    !.toAdd = ids]
  /\ UNCHANGED junction

M2MCreateInsert ==
  /\ UNCHANGED <<opVars, recordVars>>
  /\ m2m.pc = "insert"
  /\ m2m.op = "create"
  /\ LET id == Head(m2m.toAdd)
     IN /\ junction' = InsertPair(junction, m2m.source, id)
        /\ m2m' = [m2m EXCEPT
                     !.toAdd = Tail(@),
                     !.log = Append(@, Stmt("INSERT", m2m.source, id)),
                     !.pc = LoopPc(Tail(m2m.toAdd), <<>>)]

\* the database rejects the statement the call is about to await: query rethrows
M2MQueryFails ==
  /\ UNCHANGED <<opVars, recordVars>>
  /\ m2m.pc \in {"select", "insert", "delete"}
  /\ m2m' = [m2m EXCEPT !.pc = "failed"]
  /\ UNCHANGED junction

\* the method has returned or thrown; the caller is free for its next call
M2MReturn ==
  /\ UNCHANGED <<opVars, recordVars>>
  /\ m2m.pc \in {"done", "failed"}
  /\ m2m' = Idle
  /\ UNCHANGED junction

(***************************************************************************)
(* The schema the accessors are built over: User and Post of the example   *)
(* schema, reduced to the fields the operations below distinguish, plus a  *)
(* manyToMany relation (groups) that lacks its junctionTable.              *)
(***************************************************************************)
PostsRelation ==
  [type |-> "hasMany", model |-> "Post", foreignKey |-> "userid",
   junctionTable |-> "", relatedKey |-> ""]

AuthorRelation ==
  [type |-> "belongsTo", model |-> "User", foreignKey |-> "userid",
   junctionTable |-> "", relatedKey |-> ""]

Schema ==
  [User |-> [fields |-> <<"id", "name", "createdAt">>,
             required |-> <<"id", "name">>,
             optional |-> <<"createdAt">>,
             primaryKey |-> "id",
             relations |-> [posts |-> PostsRelation,
                            roles |-> RolesRelation,
                            groups |-> GroupsRelation]],
   Post |-> [fields |-> <<"id", "title", "userid">>,
             required |-> <<"id", "title", "userid">>,
             optional |-> <<>>,
             primaryKey |-> "id",
             relations |-> [author |-> AuthorRelation]]]

Tables == DOMAIN Schema

\* the keys a caller's data map may carry, in the order Object.keys lists them
KeyOrder ==
  <<"id", "name", "title", "userid", "createdAt", "bogus", "relations">>

RECURSIVE KeepIf(_, _, _)
\* s.filter(x => (x in S) = keep)
KeepIf(s, S, keep) ==
  IF s = <<>> THEN <<>>
  ELSE IF (Head(s) \in S) = keep THEN <<Head(s)>> \o KeepIf(Tail(s), S, keep)
       ELSE KeepIf(Tail(s), S, keep)

\* Object.keys(data)
ObjectKeys(data) == KeepIf(KeyOrder, data, TRUE)

(***************************************************************************)
(* Errors.  A message is kept as its parts: what it reports, the table     *)
(* and method it names, the field names it lists, the statement that       *)
(* failed, and the "Error in <method> method: " prefixes wrapped around.   *)
(***************************************************************************)
Err(kind, tbl, method, fields, stmt) ==
  [kind |-> kind, tbl |-> tbl, method |-> method, fields |-> fields,
   stmt |-> stmt, wraps |-> <<>>]

NoErr == Err("none", "", "", <<>>, "")

\* what pg rejects a query or a connect with
DbErr(stmt) == Err("Database", "", "", <<>>, stmt)

\* throw new Error(`Error in ${method} method: ${error.message}`)
WrapIn(method, e) == [e EXCEPT !.wraps = <<method>> \o @]

(***************************************************************************)
(* validateData and validatePartialData.                                   *)
(***************************************************************************)
MissingRequiredAll(tbl, data) == Schema[tbl].required

\* this.required.filter((field) => !(field in data))
MissingRequired(tbl, data) == KeepIf(Schema[tbl].required, data, FALSE)

InvalidFieldsAll(tbl, data) == ObjectKeys(data)

\* Object.keys(data).filter(f => !this.fields[f] && !this.optional.includes(f))
InvalidFields(tbl, data) ==
  KeepIf(ObjectKeys(data),
         Range(Schema[tbl].fields) \cup Range(Schema[tbl].optional), FALSE)

InvalidPartialFieldsAll(tbl, data) == ObjectKeys(data)

\* Object.keys(data).filter((field) => !(field in modelSchema.fields))
InvalidPartialFields(tbl, data) ==
  KeepIf(ObjectKeys(data), Range(Schema[tbl].fields), FALSE)

\* the error validateData throws, or NoErr
validateData(tbl, data, methodName) ==
  IF MissingRequired(tbl, data) # <<>>
    THEN Err("MissingRequired", tbl, methodName, MissingRequired(tbl, data), "")
  ELSE IF InvalidFields(tbl, data) # <<>>
    THEN Err("InvalidFields", "", "", InvalidFields(tbl, data), "")
  ELSE NoErr

\* the error validatePartialData throws, or NoErr
validatePartialData(tbl, data) ==
  IF InvalidPartialFields(tbl, data) # <<>>
    THEN Err("InvalidFields", tbl, "update", InvalidPartialFields(tbl, data), "")
  ELSE NoErr

(***************************************************************************)
(* createTableIfNotExists: the configuration checks it makes for every     *)
(* belongsTo relation before it sends CREATE TABLE.                        *)
(***************************************************************************)
BelongsToMisconfigured(tbl) ==
  \E name \in DOMAIN Schema[tbl].relations :
    LET relation == Schema[tbl].relations[name]
    IN /\ relation.type = "belongsTo"
       /\ \/ relation.foreignKey \notin Range(Schema[tbl].fields)
          \/ relation.model \notin Tables
          \/ Schema[relation.model].primaryKey = ""

\* whatever fails inside, the catch block throws this in its place
CreateTableErr == Err("CreateTable", "", "", <<>>, "")

(***************************************************************************)
(* Calls.  A frame is one running create or update; a create that resolves *)
(* a hasMany relation awaits the related table's create, a second frame.   *)
(***************************************************************************)
Frame(op, tbl, data, rels, parent, id) ==
  [op |-> op, tbl |-> tbl, data |-> data, rels |-> rels,
   parent |-> parent, id |-> id,
   pc |-> "connect", client |-> 0, row |-> 0,
   thrown |-> NoErr, thrownAt |-> "none", raised |-> NoErr,
   items |-> <<>>, ids |-> <<>>, dbOk |-> TRUE, logStart |-> 0]

Depth == Len(stack)
Top == stack[Depth]
SetTop(f) == [stack EXCEPT ![Depth] = f]

ThrowIntoCommit(f, e, at) ==
  [f EXCEPT !.thrown = WrapIn("create", e), !.thrownAt = at, !.pc = "commit"]

ThrowSkipRollback(f, e, at) ==
  [f EXCEPT !.raised = WrapIn("create", e), !.thrownAt = at, !.pc = "return"]

\* the callback of create throws e: its catch wraps it, withTransaction catches
Throw(f, e, at) ==
  [f EXCEPT !.thrown = WrapIn("create", e), !.thrownAt = at, !.pc = "rollback"]

\* a statement of the callback was rejected by the database
Rejected(f, stmt, at) == [Throw(f, DbErr(stmt), at) EXCEPT !.dbOk = FALSE]

\* the relations-map entry a statement is sent for: the one create is
\* resolving, also for the statements of the related create it awaits
SentFor(f) ==
  IF Depth > 1 THEN Head(stack[1].rels).name
  ELSE IF f.pc \in {"foreignKey", "junction"} THEN Head(f.rels).name
  ELSE ""

Sent(kind, conn, f) ==
  [kind |-> kind, conn |-> conn, client |-> f.client, depth |-> Depth,
   rel |-> SentFor(f)]

FreeConns == Conns \ inUse

\* the idle connection pool.query or pool.connect takes
IdleConn == CHOOSE c \in FreeConns : \A d \in FreeConns : c <= d

RECURSIVE Dispatch(_)
\* the relations loop of create, run up to its next await
Dispatch(f) ==
  IF f.rels = <<>> THEN [f EXCEPT !.pc = "commit"]
  ELSE LET entry == Head(f.rels)
           declared == Schema[f.tbl].relations
       IN IF entry.name \notin DOMAIN declared
            THEN Throw(f, Err("RelationNotFound", f.tbl, "", <<entry.name>>, ""),
                       "relation")
          ELSE LET relation == declared[entry.name]
               IN CASE relation.type \in {"hasMany", "hasOne"} ->
                         IF entry.items = <<>>
                           THEN Dispatch([f EXCEPT !.rels = Tail(@)])
                           ELSE [f EXCEPT !.pc = "related", !.items = entry.items]
                    [] relation.type = "belongsTo" -> [f EXCEPT !.pc = "foreignKey"]
                    [] relation.type = "manyToMany" ->
                         IF InvalidM2MConfig(relation)
                           THEN Throw(f, Err("InvalidManyToMany", relation.model,
                                             "", <<>>, ""), "relation")
                         ELSE IF entry.ids = <<>>
                           THEN Dispatch([f EXCEPT !.rels = Tail(@)])
                           ELSE [f EXCEPT !.pc = "junction", !.ids = entry.ids]
                    [] OTHER -> Dispatch([f EXCEPT !.rels = Tail(@)])

(***************************************************************************)
(* The inputs callers pass.                                                *)
(***************************************************************************)
\* keys a data map for the table may carry: its fields and an undeclared one
DataKeys(tbl) == Range(Schema[tbl].fields) \cup {"bogus"}

DataMaps(tbl) == SUBSET DataKeys(tbl)

\* payloads of related records: one that create accepts, one lacking its id
ValidItem == {"id", "title"}
InvalidItem == {"title"}

Entry(name, items, ids, parent) ==
  [name |-> name, items |-> items, ids |-> ids, parent |-> parent]

\* the entries a relations map for the table is made of
RelationEntries(tbl) ==
  IF tbl = "User"
    THEN {Entry("posts", <<ValidItem>>, <<>>, 0),
          Entry("posts", <<ValidItem, InvalidItem>>, <<>>, 0),
          Entry("roles", <<>>, <<1, 2>>, 0),
          Entry("groups", <<>>, <<1>>, 0),
          Entry("nope", <<>>, <<>>, 0)}
    ELSE {Entry("author", <<>>, <<>>, 1),
          Entry("nope", <<>>, <<>>, 0)}

\* relations maps: up to MaxRels entries under distinct names
RelationMaps(tbl) ==
  {rels \in Lists(RelationEntries(tbl), MaxRels) :
     \A i, k \in 1..Len(rels) : i # k => rels[i].name # rels[k].name}

RECURSIVE PayloadSize(_)
\* rows (related records and junction rows) the relations map asks for
PayloadSize(rels) ==
  IF rels = <<>> THEN [items |-> 0, ids |-> 0]
  ELSE LET rest == PayloadSize(Tail(rels))
       IN [items |-> Len(Head(rels).items) + rest.items,
           ids |-> Len(Head(rels).ids) + rest.ids]

(***************************************************************************)
(* withTransaction and create.                                             *)
(***************************************************************************)
\* a caller invokes create(data, relations) on the table's accessor; the
\* relations map is only read once validateData has passed, so a data map
\* that fails it is passed with the empty relations map
CreateStart ==
  /\ stack = <<>>
  /\ \E tbl \in Tables :
       \E data \in DataMaps(tbl), rels \in RelationMaps(tbl) :
         /\ rels = <<>> \/ validateData(tbl, data, "create") = NoErr
         /\ nextId + PayloadSize(rels).items <= MaxIds
         /\ Fits(junction, PayloadSize(rels).ids)
         /\ stack' = <<Frame("create", tbl, data, rels, 0, 0)>>
  /\ log' = <<>>
  /\ UNCHANGED <<recordVars, junction, m2m, inUse, releases, committed, pending, nextId,
                 raisedRows>>

\* const client = await this.pool.connect()
Connect ==
  /\ stack # <<>>
  /\ Top.pc = "connect"
  /\ \/ /\ FreeConns # {}
        /\ stack' = SetTop([Top EXCEPT !.client = IdleConn, !.pc = "begin"])
        /\ inUse' = inUse \cup {IdleConn}
        /\ releases' = [releases EXCEPT ![IdleConn] = 0]
     \/ /\ stack' = SetTop([Top EXCEPT !.raised = DbErr("connect"),
                                       !.thrownAt = "connect",
                                       !.dbOk = FALSE, !.pc = "return"])
        /\ UNCHANGED <<inUse, releases>>
  /\ UNCHANGED <<recordVars, junction, m2m, committed, pending, nextId, log, raisedRows>>

\* await client.query('BEGIN')
Begin ==
  /\ stack # <<>>
  /\ Top.pc = "begin"
  /\ log' = Append(log, Sent("BEGIN", Top.client, Top))
  /\ \/ stack' = SetTop([Top EXCEPT !.pc = "createTable"])
     \/ stack' = SetTop([Top EXCEPT !.thrown = DbErr("BEGIN"), !.thrownAt = "begin",
                                    !.dbOk = FALSE, !.pc = "rollback"])
  /\ UNCHANGED <<recordVars, junction, m2m, inUse, releases, committed, pending, nextId,
                 raisedRows>>

\* await this.createTableIfNotExists(); this.validateData(data, 'create')
CreateTable ==
  /\ stack # <<>>
  /\ Top.pc = "createTable"
  /\ IF BelongsToMisconfigured(Top.tbl)
       THEN /\ stack' = SetTop(Throw(Top, CreateTableErr, "createTable"))
            /\ UNCHANGED log
       ELSE /\ FreeConns # {}
            /\ log' = Append(log, Sent("CREATE TABLE", IdleConn, Top))
            /\ \/ stack' = SetTop(
                    IF validateData(Top.tbl, Top.data, "create") # NoErr
                      THEN Throw(Top, validateData(Top.tbl, Top.data, "create"),
                                 "validate")
                      ELSE [Top EXCEPT !.pc = "insert"])
               \/ stack' = SetTop(
                    [Throw(Top, CreateTableErr, "createTable") EXCEPT !.dbOk = FALSE])
  /\ UNCHANGED <<recordVars, junction, m2m, inUse, releases, committed, pending, nextId,
                 raisedRows>>

InsertConnPool(f) == IdleConn

\* the connection the INSERT is sent on: client.query(query, values)
InsertConn(f) == f.client

\* the row INSERT ... RETURNING * stores: its key and its foreign-key column
NewRow(f) == [tbl |-> f.tbl, id |-> nextId, fk |-> f.parent]

\* a statement on a connection with an open transaction stays uncommitted
\* until COMMIT; on any other connection it takes effect at once
Written(conn, rows) ==
  IF conn \in inUse
    THEN /\ pending' = [pending EXCEPT ![conn] = @ \cup rows]
         /\ UNCHANGED committed
    ELSE /\ committed' = committed \cup rows
         /\ UNCHANGED pending

\* const result = await client.query(INSERT ...); then the relations loop
Insert ==
  /\ stack # <<>>
  /\ Top.pc = "insert"
  /\ log' = Append(log, Sent("INSERT", InsertConn(Top), Top))
  /\ \/ /\ Written(InsertConn(Top), {NewRow(Top)})
        /\ nextId' = nextId + 1
        /\ stack' = SetTop(Dispatch([Top EXCEPT !.row = nextId]))
     \/ /\ stack' = SetTop(Rejected(Top, "INSERT", "insert"))
        /\ UNCHANGED <<committed, pending, nextId>>
  /\ UNCHANGED <<recordVars, junction, m2m, inUse, releases, raisedRows>>

\* createRelatedRecords: await relatedQueryBuilder.create({...item, [fk]: parentId})
CallRelated ==
  /\ stack # <<>>
  /\ Top.pc = "related"
  /\ LET relation == Schema[Top.tbl].relations[Head(Top.rels).name]
         child == [Frame("create", relation.model,
                         Head(Top.items) \cup {relation.foreignKey}, <<>>,
                         Top.row, 0) EXCEPT !.logStart = Len(log)]
     IN stack' = Append(SetTop([Top EXCEPT !.pc = "await"]), child)
  /\ UNCHANGED <<recordVars, junction, m2m, inUse, releases, committed, pending, nextId,
                 log, raisedRows>>

\* the related create has settled: the awaiting create goes on, or throws
RelatedReturn ==
  /\ Depth = 2
  /\ Top.pc = "return"
  /\ LET child == Top
         f == stack[1]
     IN stack' = <<IF child.raised # NoErr
                     THEN [Throw(f, child.raised, "relation")
                             EXCEPT !.dbOk = f.dbOk /\ child.dbOk]
                   ELSE IF Tail(f.items) # <<>>
                     THEN [f EXCEPT !.items = Tail(@), !.pc = "related"]
                   ELSE Dispatch([f EXCEPT !.items = <<>>, !.rels = Tail(@)])>>
  /\ UNCHANGED <<recordVars, junction, m2m, inUse, releases, committed, pending, nextId,
                 log, raisedRows>>

\* updateForeignKey: await this.query(UPDATE ... SET fk = $1 WHERE id = $2)
ForeignKey ==
  /\ stack # <<>>
  /\ Top.pc = "foreignKey"
  /\ FreeConns # {}
  /\ log' = Append(log, Sent("UPDATE", IdleConn, Top))
  /\ \/ /\ committed' =
             {IF r.tbl = Top.tbl /\ r.id = Top.row
                THEN [r EXCEPT !.fk = Head(Top.rels).parent] ELSE r : r \in committed}
        /\ stack' = SetTop(Dispatch([Top EXCEPT !.rels = Tail(@)]))
     \/ /\ stack' = SetTop(Rejected(Top, "UPDATE", "relation"))
        /\ UNCHANGED committed
  /\ UNCHANGED <<recordVars, junction, m2m, inUse, releases, pending, nextId, raisedRows>>

\* createManyToManyRelation: await this.query(INSERT INTO junction ...)
JunctionInsert ==
  /\ stack # <<>>
  /\ Top.pc = "junction"
  /\ FreeConns # {}
  /\ log' = Append(log, Sent("INSERT JUNCTION", IdleConn, Top))
  /\ \/ /\ junction' = InsertPair(junction, Top.row, Head(Top.ids))
        /\ stack' = SetTop(IF Tail(Top.ids) # <<>>
                             THEN [Top EXCEPT !.ids = Tail(@)]
                             ELSE Dispatch([Top EXCEPT !.ids = <<>>,
                                                       !.rels = Tail(@)]))
     \/ /\ stack' = SetTop(Rejected(Top, "INSERT JUNCTION", "relation"))
        /\ UNCHANGED junction
  /\ UNCHANGED <<recordVars, m2m, inUse, releases, committed, pending, nextId, raisedRows>>

ReleaseCallsOnSuccessOnly(threw) == IF threw THEN 0 ELSE 1

\* finally { client.release() }: release() calls made on the way out
ReleaseCalls(threw) == 1

\* the pool after the finally block of a withTransaction that held conn
Exit(conn, threw) ==
  /\ inUse' = IF ReleaseCalls(threw) > 0 THEN inUse \ {conn} ELSE inUse
  /\ releases' = [releases EXCEPT ![conn] = @ + ReleaseCalls(threw)]

\* await client.query('COMMIT'); return result
Commit ==
  /\ stack # <<>>
  /\ Top.pc = "commit"
  /\ log' = Append(log, Sent("COMMIT", Top.client, Top))
  /\ \/ /\ committed' = committed \cup pending[Top.client]
        /\ pending' = [pending EXCEPT ![Top.client] = {}]
        /\ Exit(Top.client, FALSE)
        /\ stack' = SetTop([Top EXCEPT !.pc = "return"])
     \/ /\ stack' = SetTop([Top EXCEPT !.thrown = DbErr("COMMIT"),
                                       !.thrownAt = "commit",
                                       !.dbOk = FALSE, !.pc = "rollback"])
        /\ UNCHANGED <<committed, pending, inUse, releases>>
  /\ UNCHANGED <<recordVars, junction, m2m, nextId, raisedRows>>

RaisedAfterRollbackLast(thrown, rollbackOk) == DbErr("ROLLBACK")

\* catch (error) { await client.query('ROLLBACK'); throw error; }
RaisedAfterRollback(thrown, rollbackOk) ==
  IF rollbackOk THEN thrown ELSE DbErr("ROLLBACK")

\* the transaction's writes are dropped, also when the ROLLBACK is not
\* answered: the database aborts the transaction of a lost session
Rollback ==
  /\ stack # <<>>
  /\ Top.pc = "rollback"
  /\ log' = Append(log, Sent("ROLLBACK", Top.client, Top))
  /\ pending' = [pending EXCEPT ![Top.client] = {}]
  /\ Exit(Top.client, TRUE)
  /\ \E rollbackOk \in BOOLEAN :
       stack' = SetTop([Top EXCEPT
                          !.raised = RaisedAfterRollback(Top.thrown, rollbackOk),
                          !.dbOk = @ /\ rollbackOk,
                          !.pc = "return"])
  /\ UNCHANGED <<recordVars, junction, m2m, committed, nextId, raisedRows>>

(***************************************************************************)
(* update.                                                                 *)
(***************************************************************************)
\* a caller invokes update(id, data): validatePartialData runs before any await
UpdateStart ==
  /\ stack = <<>>
  /\ \E tbl \in Tables, id \in Ids :
     \E data \in DataMaps(tbl) :
       stack' = <<IF validatePartialData(tbl, data) # NoErr
                    THEN [Frame("update", tbl, data, <<>>, 0, id) EXCEPT
                            !.raised = WrapIn("update", validatePartialData(tbl, data)),
                            !.thrownAt = "validate", !.pc = "return"]
                    ELSE [Frame("update", tbl, data, <<>>, 0, id) EXCEPT
                            !.pc = "update"]>>
  /\ log' = <<>>
  /\ UNCHANGED <<recordVars, junction, m2m, inUse, releases, committed, pending, nextId,
                 raisedRows>>

\* const [row] = await this.query(UPDATE ... WHERE id = $n RETURNING *)
UpdateRow ==
  /\ stack # <<>>
  /\ Top.pc = "update"
  /\ FreeConns # {}
  /\ log' = Append(log, Sent("UPDATE", IdleConn, Top))
  /\ LET hit == {r \in committed : r.tbl = Top.tbl /\ r.id = Top.id}
         failed == [Top EXCEPT !.raised = WrapIn("update", DbErr("UPDATE")),
                               !.thrownAt = "update", !.dbOk = FALSE,
                               !.pc = "return"]
     IN \/ /\ Top.data # {}
           /\ committed' =
                {IF r \in hit /\ "userid" \in Top.data
                   THEN [r EXCEPT !.fk = 0] ELSE r : r \in committed}
           /\ stack' = SetTop(
                IF hit = {}
                  THEN [Top EXCEPT
                          !.raised = WrapIn("update",
                                            Err("NotFound", "", "", <<>>, "")),
                          !.thrownAt = "update", !.pc = "return"]
                  ELSE [Top EXCEPT !.row = Top.id, !.pc = "return"])
        \/ /\ stack' = SetTop(failed)
           /\ UNCHANGED committed
  /\ UNCHANGED <<recordVars, junction, m2m, inUse, releases, pending, nextId, raisedRows>>

\* the top-level call has settled and its caller goes on
Return ==
  /\ Depth = 1
  /\ Top.pc = "return"
  /\ stack' = <<>>
  /\ log' = <<>>
  /\ raisedRows' = raisedRows \cup
       (IF Top.op = "create" /\ Top.thrownAt = "relation" /\ Top.row # 0
          THEN {[tbl |-> Top.tbl, id |-> Top.row]} ELSE {})
  /\ releases' = [c \in Conns |-> 0]
  /\ UNCHANGED <<recordVars, junction, m2m, inUse, committed, pending, nextId>>

(***************************************************************************)
(* create on tables of every key shape.  The schema below gives each       *)
(* field its type tag; the table is the one createTableIfNotExists         *)
(* creates, and the database answers the INSERT by the constraints of      *)
(* that table.  The transaction around the INSERT is the one modelled      *)
(* above.                                                                  *)
(***************************************************************************)
Field(name, type) == [name |-> name, type |-> type]

TypedSchema ==
  [Account |-> [fields |-> <<Field("id", "uuid"), Field("name", "varchar"),
                            Field("createdAt", "timestamp")>>,
                required |-> <<"id", "name">>,
                optional |-> <<"createdAt">>,
                primaryKey |-> <<"id">>],
   Ticket |-> [fields |-> <<Field("id", "serial"), Field("title", "varchar"),
                           Field("priority", "integer")>>,
               required |-> <<"title">>,
               optional |-> <<"priority">>,
               primaryKey |-> <<"id">>],
   UserRoles |-> [fields |-> <<Field("userid", "uuid"), Field("roleId", "uuid")>>,
                  required |-> <<"userid", "roleId">>,
                  optional |-> <<>>,
                  primaryKey |-> <<"userid", "roleId">>],
   Country |-> [fields |-> <<Field("code", "varchar"), Field("name", "varchar")>>,
                required |-> <<"code", "name">>,
                optional |-> <<>>,
                primaryKey |-> <<"code">>]]

TypedTables == DOMAIN TypedSchema

FieldNames(tbl) ==
  [i \in 1..Len(TypedSchema[tbl].fields) |-> TypedSchema[tbl].fields[i].name]

\* this.schema[this.table].fields[field]
FieldType(tbl, name) ==
  LET i == CHOOSE k \in 1..Len(TypedSchema[tbl].fields) :
             TypedSchema[tbl].fields[k].name = name
  IN TypedSchema[tbl].fields[i].type

\* the column type CREATE TABLE is given for a type tag: a serial tag
\* becomes a plain INTEGER column, which has no sequence behind it
sqlTypeFromSchemaType(schemaType) ==
  CASE schemaType \in {"varchar", "text", "uuid"} -> "VARCHAR"
    [] schemaType \in {"integer", "serial"} -> "INTEGER"
    [] schemaType \in {"float", "real", "double precision"} -> "FLOAT"
    [] schemaType = "boolean" -> "BOOLEAN"
    [] schemaType = "date" -> "DATE"
    [] schemaType = "timestamp" -> "TIMESTAMP"
    [] schemaType \in {"json", "jsonb"} -> "JSONB"
    [] OTHER -> "TEXT"

\* one column definition of createTableIfNotExists: PRIMARY KEY goes to the
\* column named id and to no other, NOT NULL to the other required fields,
\* DEFAULT now() to a createdAt or updatedAt that is not required
ColumnDef(tbl, name) ==
  [name |-> name,
   sqlType |-> sqlTypeFromSchemaType(FieldType(tbl, name)),
   primaryKey |-> name = "id",
   notNull |-> name # "id" /\ name \in Range(TypedSchema[tbl].required),
   defaultNow |-> /\ name # "id"
                  /\ name \notin Range(TypedSchema[tbl].required)
                  /\ name \in {"createdAt", "updatedAt"}]

Columns(tbl) ==
  [i \in 1..Len(FieldNames(tbl)) |-> ColumnDef(tbl, FieldNames(tbl)[i])]

\* what a caller's data map holds under a field name
Held == {"absent", "undefined", "null", "value"}

\* data maps over the declared fields of the table
TypedData(tbl) == [Range(FieldNames(tbl)) -> Held]

Keys(data) == {name \in DOMAIN data : data[name] # "absent"}

\* processFields: what the INSERT is given for the field; "omitted" when the
\* field is not in the write set
ProcessField(type, held) ==
  IF held = "absent" THEN "omitted"
  ELSE IF type = "uuid" /\ held # "value" THEN "value"
  ELSE IF type = "serial" THEN "omitted"
  ELSE IF type = "integer" THEN (IF held = "undefined" THEN "null" ELSE "value")
  ELSE IF type = "timestamp" /\ held # "value" THEN "value"
  ELSE IF held = "value" THEN "value" ELSE "null"

processFields(tbl, data) ==
  [name \in DOMAIN data |-> ProcessField(FieldType(tbl, name), data[name])]

\* the row the database would store for the INSERT: a column left out of
\* the write set takes its default, which is NULL unless DEFAULT now()
RowFor(columns, processed) ==
  [name \in DOMAIN processed |->
     LET col == columns[CHOOSE k \in 1..Len(columns) : columns[k].name = name]
     IN IF processed[name] # "omitted" THEN processed[name]
        ELSE IF col.defaultNow THEN "value" ELSE "null"]

\* the database rejects an INSERT with an empty column list, and a NULL in
\* a PRIMARY KEY or NOT NULL column
InsertRejected(columns, processed) ==
  \/ \A name \in DOMAIN processed : processed[name] = "omitted"
  \/ \E k \in 1..Len(columns) :
       /\ columns[k].primaryKey \/ columns[k].notNull
       /\ RowFor(columns, processed)[columns[k].name] = "null"

NoTypedCall ==
  [pc |-> "idle", tbl |-> "", data |-> <<>>, row |-> <<>>, raised |-> NoErr]

\* a caller invokes create(data) on the accessor of a typed table
TypedCreateStart ==
  /\ tcall.pc = "idle"
  /\ \E tbl \in TypedTables :
       \E data \in TypedData(tbl) :
         tcall' = [NoTypedCall EXCEPT !.pc = "createTable", !.tbl = tbl,
                                      !.data = data]
  /\ UNCHANGED <<catalog, junction, m2m, opVars, laterVars, cacheVars, relVars>>

\* await this.createTableIfNotExists(); this.validateData(data, 'create')
TypedCreateTable ==
  /\ tcall.pc = "createTable"
  /\ catalog' = IF catalog[tcall.tbl] = <<>>
                  THEN [catalog EXCEPT ![tcall.tbl] = Columns(tcall.tbl)]
                  ELSE catalog
  /\ LET required == TypedSchema[tcall.tbl].required
         missing == KeepIf(required, Keys(tcall.data), FALSE)
     IN tcall' = IF missing # <<>>
                   THEN [tcall EXCEPT
                           !.raised = WrapIn("create",
                                        Err("MissingRequired", tcall.tbl,
                                            "create", missing, "")),
                           !.pc = "return"]
                   ELSE [tcall EXCEPT !.pc = "insert"]
  /\ UNCHANGED <<junction, m2m, opVars, laterVars, cacheVars, relVars>>

\* const result = await client.query(INSERT ... RETURNING *); row = rows[0]
TypedInsert ==
  /\ tcall.pc = "insert"
  /\ LET processed == processFields(tcall.tbl, tcall.data)
         columns == catalog[tcall.tbl]
     IN tcall' = IF InsertRejected(columns, processed)
                   THEN [tcall EXCEPT
                           !.raised = WrapIn("create", DbErr("INSERT")),
                           !.pc = "return"]
                   ELSE [tcall EXCEPT !.row = RowFor(columns, processed),
                                      !.pc = "return"]
  /\ UNCHANGED <<catalog, junction, m2m, opVars, laterVars, cacheVars, relVars>>

\* create has settled and its caller goes on
TypedReturn ==
  /\ tcall.pc = "return"
  /\ tcall' = NoTypedCall
  /\ UNCHANGED <<catalog, junction, m2m, opVars, laterVars, cacheVars, relVars>>

(***************************************************************************)
(* Point lookups and the result cache of one accessor.  A record is        *)
(* its key and its content; the calls of the one caller follow each other. *)
(* create stands for its committed outcome; its transaction is modelled    *)
(* above.                                                                  *)
(***************************************************************************)
KeyValues == 1..NumKeys

\* contents a record may have
Vals == {"a", "b"}

\* no row under the key, or no entry in the cache
None == "none"

\* the local cachedResult of findById: this.cache.get(cacheKey)
CacheGetMiss(c, id) == None

CacheGet(c, id) == c[id]

CacheSetAlways(c, id, result) == [c EXCEPT ![id] = result]

\* if (result) { this.cache.set(cacheKey, result) }
CacheSet(c, id, result) ==
  IF result # "null" THEN [c EXCEPT ![id] = result] ELSE c

\* return row || null
RowOrNull(row) == IF row = None THEN "null" ELSE row

NotFoundErrorNever(row) == NoErr

\* if (!row) throw new Error(`Record with id ${id} not found`), as update's
\* catch block rethrows it
NotFoundError(row) ==
  IF row = None THEN WrapIn("update", Err("NotFound", "", "", <<>>, ""))
  ELSE NoErr

\* throw new Error(`Error in ${method} method`): the cause is not kept
MethodErr(method) == Err("Method", "", method, <<>>, "")

NoRecord == [id |-> 0, val |-> None]

NoCall ==
  [op |-> "none", id |-> 0, val |-> None, pc |-> "idle", result |-> None,
   raised |-> NoErr, dbOk |-> TRUE, stmts |-> 0,
   before |-> None, entries |-> <<>>]

\* a call of the accessor is made: what the table holds under the key and
\* what the cache holds at that time are noted for the claims
Call(op, id, val) ==
  [NoCall EXCEPT !.op = op, !.id = id, !.val = val,
                 !.before = tableRows[id], !.entries = cache]

\* findById(id) up to its first await: a cached record is returned at once
FindById ==
  /\ call.pc = "idle"
  /\ \E id \in KeyValues :
       LET cachedResult == CacheGet(cache, id)
       IN call' = IF cachedResult # None
                    THEN [Call("findById", id, None) EXCEPT
                            !.result = cachedResult, !.pc = "return"]
                    ELSE [Call("findById", id, None) EXCEPT !.pc = "select"]
  /\ UNCHANGED <<tableRows, cache, lastCreated>>
  /\ UNCHANGED <<junction, m2m, opVars, laterVars, typedVars, relVars>>

\* const [row] = await this.query(SELECT * FROM t WHERE id = $1)
FindByIdQuery ==
  /\ call.pc = "select"
  /\ \/ LET result == RowOrNull(tableRows[call.id])
        IN /\ cache' = CacheSet(cache, call.id, result)
           /\ call' = [call EXCEPT !.result = result, !.stmts = @ + 1,
                                   !.pc = "return"]
     \/ /\ call' = [call EXCEPT !.raised = MethodErr("findById"),
                                !.dbOk = FALSE, !.stmts = @ + 1,
                                !.pc = "return"]
        /\ UNCHANGED cache
  /\ UNCHANGED <<tableRows, lastCreated>>
  /\ UNCHANGED <<junction, m2m, opVars, laterVars, typedVars, relVars>>

\* create({id, ...}): the row is stored and returned, or the INSERT is
\* rejected (always so when the key is taken) and create raises
RecCreate ==
  /\ call.pc = "idle"
  /\ \E id \in KeyValues, val \in Vals :
       \/ /\ tableRows[id] = None
          /\ tableRows' = [tableRows EXCEPT ![id] = val]
          /\ lastCreated' = [id |-> id, val |-> val]
          /\ call' = [Call("create", id, val) EXCEPT
                        !.result = val, !.stmts = 1, !.pc = "return"]
       \/ /\ call' = [Call("create", id, val) EXCEPT
                        !.raised = WrapIn("create", DbErr("INSERT")),
                        !.dbOk = tableRows[id] # None,
                        !.stmts = 1, !.pc = "return"]
          /\ lastCreated' = NoRecord
          /\ UNCHANGED tableRows
  /\ UNCHANGED cache
  /\ UNCHANGED <<junction, m2m, opVars, laterVars, typedVars, relVars>>

\* update(id, data) with declared fields: UPDATE ... WHERE id = $n RETURNING *
RecUpdate ==
  /\ call.pc = "idle"
  /\ \E id \in KeyValues, val \in Vals :
       \/ LET row == IF tableRows[id] = None THEN None ELSE val
          IN /\ tableRows' = [tableRows EXCEPT ![id] = row]
             /\ call' = [Call("update", id, val) EXCEPT
                           !.result = IF NotFoundError(row) = NoErr
                                        THEN row ELSE None,
                           !.raised = NotFoundError(row),
                           !.stmts = 1, !.pc = "return"]
       \/ /\ call' = [Call("update", id, val) EXCEPT
                        !.raised = WrapIn("update", DbErr("UPDATE")),
                        !.dbOk = FALSE, !.stmts = 1, !.pc = "return"]
          /\ UNCHANGED tableRows
  /\ lastCreated' = NoRecord
  /\ UNCHANGED cache
  /\ UNCHANGED <<junction, m2m, opVars, laterVars, typedVars, relVars>>

\* delete(id): DELETE FROM t WHERE id = $1 RETURNING *; return row || null
RecDelete ==
  /\ call.pc = "idle"
  /\ \E id \in KeyValues :
       \/ /\ tableRows' = [tableRows EXCEPT ![id] = None]
          /\ call' = [Call("delete", id, None) EXCEPT
                        !.result = RowOrNull(tableRows[id]),
                        !.stmts = 1, !.pc = "return"]
       \/ /\ call' = [Call("delete", id, None) EXCEPT
                        !.raised = MethodErr("delete"),
                        !.dbOk = FALSE, !.stmts = 1, !.pc = "return"]
          /\ UNCHANGED tableRows
  /\ lastCreated' = NoRecord
  /\ UNCHANGED cache
  /\ UNCHANGED <<junction, m2m, opVars, laterVars, typedVars, relVars>>

\* an entry reaches its time to live (stdTTL: 600) and is dropped; a call
\* settles and its caller goes on in one instant, so expiry falls before
\* or after it
CacheExpire ==
  /\ call.pc # "return"
  /\ \E id \in KeyValues :
       /\ cache[id] # None
       /\ cache' = [cache EXCEPT ![id] = None]
  /\ UNCHANGED <<tableRows, call, lastCreated>>
  /\ UNCHANGED <<junction, m2m, opVars, laterVars, typedVars, relVars>>

\* the call has settled and its caller goes on
RecReturn ==
  /\ call.pc = "return"
  /\ call' = NoCall
  /\ lastCreated' = IF call.op = "create" THEN lastCreated ELSE NoRecord
  /\ UNCHANGED <<tableRows, cache>>
  /\ UNCHANGED <<junction, m2m, opVars, laterVars, typedVars, relVars>>

(***************************************************************************)
(* update with an embedded relations map, and updateMany with the relation *)
(* pass it makes over every updated row.  The rows are those of the User   *)
(* and Post tables; create stands for its committed outcome, and connect   *)
(* and BEGIN of updateMany's withTransaction are part of its first step.   *)
(***************************************************************************)
\* Object.entries(this.relations): the relation names in declaration order
RelationOrder(tbl) ==
  IF tbl = "User" THEN <<"posts", "roles", "groups">> ELSE <<"author">>

\* the ids of the set as RETURNING id lists them
RECURSIVE IdList(_)
IdList(S) ==
  IF S = {} THEN <<>>
  ELSE LET least == CHOOSE k \in S : \A other \in S : k <= other
       IN <<least>> \o IdList(S \ {least})

\* data maps update and updateMany are given: declared and undeclared field
\* names, and for update the key relations with a relations map under it
UpdateData(tbl, op) ==
  DataMaps(tbl) \cup
    (IF op = "update" THEN {data \cup {"relations"} : data \in DataMaps(tbl)}
     ELSE {})

\* what updateRelation does for the relation with the payload it is given.
\* updateMany passes data[relationName], which is undefined for every data
\* map that passed validatePartialData, and passes the transaction's client
\* as the pool of the related accessor.
\*   hasMany / hasOne: create({...payload, [foreignKey]: parentId}) on the
\*     related accessor; on the client its withTransaction calls connect()
\*     on a connection that is already connected, and with an undefined
\*     payload the data map holds the foreign key alone
\*   belongsTo: updateForeignKey through the pool; inside updateMany the row
\*     is locked by the transaction's own UPDATE, so the statement waits
\*   manyToMany: updateManyToManyRelation, which calls targetIds.filter
UpdateRelationOutcomes(tbl, name, payload, onClient) ==
  LET relation == Schema[tbl].relations[name]
      fkOnly == validateData(relation.model, {relation.foreignKey}, "create")
  IN CASE relation.type \in {"hasMany", "hasOne"} ->
            (IF onClient THEN {DbErr("connect")} ELSE {})
            \cup (IF payload = "undefined" /\ fkOnly # NoErr
                    THEN {WrapIn("create", fkOnly)} ELSE {})
            \cup (IF ~onClient /\ (payload # "undefined" \/ fkOnly = NoErr)
                    THEN {NoErr} ELSE {})
       [] relation.type = "belongsTo" ->
            IF onClient THEN {Err("Blocked", "", "", <<>>, "UPDATE"),
                              DbErr("UPDATE")}
            ELSE {NoErr}
       [] relation.type = "manyToMany" ->
            IF InvalidM2MConfig(relation)
              THEN {Err("InvalidManyToMany", relation.model, "", <<>>, "")}
            ELSE IF payload = "undefined"
              THEN {Err("TypeError", "", "", <<>>, "")}
            ELSE {NoErr}
       [] OTHER -> {NoErr}

NoRelCall ==
  [op |-> "none", tbl |-> "", id |-> 0, where |-> None, val |-> None,
   data |-> {}, pc |-> "idle", ids |-> <<>>, names |-> <<>>,
   written |-> {}, count |-> 0, result |-> None, thrown |-> NoErr,
   raised |-> NoErr, dbOk |-> TRUE, before |-> <<>>, applied |-> <<>>]

RelCall(op, tbl, data, val) ==
  [NoRelCall EXCEPT !.op = op, !.tbl = tbl, !.data = data, !.val = val,
                    !.before = relRows[tbl]]

\* create({id, ...}) has stored a row of the table (its committed outcome)
RelCreate ==
  /\ rcall.pc = "idle"
  /\ \E tbl \in Tables, id \in KeyValues, val \in Vals :
       /\ relRows[tbl][id] = None
       /\ relRows' = [relRows EXCEPT ![tbl][id] = val]
  /\ UNCHANGED rcall
  /\ UNCHANGED <<junction, m2m, opVars, laterVars, typedVars, cacheVars>>

\* update(id, data): validatePartialData, the UPDATE through the pool, the
\* not-found check, and the test of data.relations
RelUpdate ==
  /\ rcall.pc = "idle"
  /\ \E tbl \in Tables, id \in KeyValues, val \in Vals :
     \E data \in UpdateData(tbl, "update") :
       LET c == [RelCall("update", tbl, data, val) EXCEPT !.id = id]
           invalid == validatePartialData(tbl, data)
           row == IF relRows[tbl][id] = None THEN None ELSE val
       IN IF invalid # NoErr
            THEN /\ rcall' = [c EXCEPT !.raised = WrapIn("update", invalid),
                                       !.pc = "return"]
                 /\ UNCHANGED relRows
          ELSE IF data = {}
            THEN /\ rcall' = [c EXCEPT !.raised = WrapIn("update", DbErr("UPDATE")),
                                       !.pc = "return"]
                 /\ UNCHANGED relRows
          ELSE /\ relRows' = [relRows EXCEPT ![tbl][id] = row]
               /\ rcall' =
                    IF NotFoundError(row) # NoErr
                      THEN [c EXCEPT !.raised = NotFoundError(row), !.pc = "return"]
                    ELSE IF "relations" \in data
                      THEN [c EXCEPT !.result = row, !.ids = <<id>>,
                                     !.names = RelationOrder(tbl),
                                     !.pc = "relation"]
                    ELSE [c EXCEPT !.result = row, !.pc = "return"]
  /\ UNCHANGED <<junction, m2m, opVars, laterVars, typedVars, cacheVars>>

\* updateMany(where, data) up to its UPDATE: validatePartialData throws
\* inside the transaction, so a Validation Error leads to ROLLBACK
ManyStart ==
  /\ rcall.pc = "idle"
  /\ \E tbl \in Tables, where \in Vals, val \in Vals :
     \E data \in UpdateData(tbl, "updateMany") :
       LET c == [RelCall("updateMany", tbl, data, val) EXCEPT !.where = where]
           invalid == validatePartialData(tbl, data)
       IN rcall' = IF invalid # NoErr
                     THEN [c EXCEPT !.thrown = WrapIn("updateMany", invalid),
                                    !.pc = "rollback"]
                     ELSE [c EXCEPT !.pc = "update"]
  /\ UNCHANGED relRows
  /\ UNCHANGED <<junction, m2m, opVars, laterVars, typedVars, cacheVars>>

\* const { rows } = await client.query(UPDATE ... WHERE ... RETURNING id)
ManyUpdate ==
  /\ rcall.pc = "update"
  /\ LET matched == {id \in KeyValues : relRows[rcall.tbl][id] = rcall.where}
         updatedIds == IdList(matched)
     IN \/ /\ rcall.data # {}
           /\ rcall' =
                IF updatedIds # <<>> /\ RelationOrder(rcall.tbl) # <<>>
                  THEN [rcall EXCEPT !.written = matched, !.ids = updatedIds,
                                     !.count = Len(updatedIds),
                                     !.names = RelationOrder(rcall.tbl),
                                     !.pc = "relation"]
                  ELSE [rcall EXCEPT !.written = matched,
                                     !.count = Len(updatedIds),
                                     !.pc = "commit"]
        \/ /\ rcall' = [rcall EXCEPT
                          !.thrown = WrapIn("updateMany", DbErr("UPDATE")),
                          !.dbOk = FALSE, !.pc = "rollback"]
  /\ UNCHANGED relRows
  /\ UNCHANGED <<junction, m2m, opVars, laterVars, typedVars, cacheVars>>

\* await this.updateRelation(relation, id, payload, client) for the next
\* relation of the next row
UpdateRelationStep ==
  /\ rcall.pc = "relation"
  /\ LET many == rcall.op = "updateMany"
         payload == IF many THEN "undefined" ELSE "given"
     IN \E e \in UpdateRelationOutcomes(rcall.tbl, Head(rcall.names), payload,
                                        many) :
          rcall' =
            IF e.kind = "Blocked" THEN [rcall EXCEPT !.pc = "blocked"]
            ELSE IF e # NoErr
              THEN IF many
                     THEN [rcall EXCEPT !.thrown = WrapIn("updateMany", e),
                                        !.dbOk = e.kind # "Database"
                                                 \/ e.stmt = "connect",
                                        !.pc = "rollback"]
                     ELSE [rcall EXCEPT !.raised = WrapIn("update", e),
                                        !.result = None, !.pc = "return"]
            ELSE LET done == [rcall EXCEPT
                                !.applied = Append(@, Head(rcall.names))]
                 IN IF Tail(rcall.names) # <<>>
                      THEN [done EXCEPT !.names = Tail(@)]
                    ELSE IF Tail(rcall.ids) # <<>>
                      THEN [done EXCEPT !.ids = Tail(@),
                                        !.names = RelationOrder(rcall.tbl)]
                    ELSE [done EXCEPT !.pc = IF many THEN "commit" ELSE "return"]
  /\ UNCHANGED relRows
  /\ UNCHANGED <<junction, m2m, opVars, laterVars, typedVars, cacheVars>>

\* await client.query('COMMIT'); return updatedIds.length
ManyCommit ==
  /\ rcall.pc = "commit"
  /\ relRows' = [relRows EXCEPT ![rcall.tbl] =
                   [id \in KeyValues |->
                      IF id \in rcall.written THEN rcall.val ELSE @[id]]]
  /\ rcall' = [rcall EXCEPT !.pc = "return"]
  /\ UNCHANGED <<junction, m2m, opVars, laterVars, typedVars, cacheVars>>

\* catch (error) { await client.query('ROLLBACK'); throw error; }
ManyRollback ==
  /\ rcall.pc = "rollback"
  /\ rcall' = [rcall EXCEPT !.raised = rcall.thrown, !.written = {},
                            !.count = 0, !.pc = "return"]
  /\ UNCHANGED relRows
  /\ UNCHANGED <<junction, m2m, opVars, laterVars, typedVars, cacheVars>>

\* the call has settled and its caller goes on
RelReturn ==
  /\ rcall.pc = "return"
  /\ rcall' = NoRelCall
  /\ UNCHANGED relRows
  /\ UNCHANGED <<junction, m2m, opVars, laterVars, typedVars, cacheVars>>

(***************************************************************************)
(* findAll and paginate.  The table is one table of the schema with a      *)
(* content column; a row is its key and its content.  create and delete    *)
(* stand for their committed outcomes.  A SELECT without ORDER BY may      *)
(* return the rows it selects in any order, so LIMIT and OFFSET keep any   *)
(* selection of the right size.                                            *)
(***************************************************************************)
QIds == 1..MaxQRows

\* an optional numeric option of a call: left out, or given as n
NotGiven == [given |-> FALSE, n |-> 0]
Given(n) == [given |-> TRUE, n |-> n]

\* a filter map: the keys it has among val and id, and their values
Where(keys, val, id) == [keys |-> keys, val |-> val, id |-> id]

Wheres ==
  {Where({}, "", 0)}
    \cup {Where({"val"}, v, 0) : v \in Vals}
    \cup {Where({"val", "id"}, v, i) : v \in Vals, i \in QIds}

\* the rows the table holds
Stored(rows) == {[id |-> i, val |-> rows[i]] : i \in {k \in QIds : rows[k] # None}}

\* whereConditions joined by ' AND ': "key" = $n for every key of the map
Matching(rows, where) ==
  {r \in Stored(rows) : \A k \in where.keys : r[k] = where[k]}

\* if (limit) query += ` LIMIT ${limit}`, and the same for offset: the
\* clause is appended when the option is truthy
ClauseIfTruthy(option) ==
  IF option.given /\ option.n # 0 THEN option ELSE NotGiven

Min(a, b) == IF a <= b THEN a ELSE b
Max(a, b) == IF a >= b THEN a ELSE b

\* the row sets SELECT ... [LIMIT l] [OFFSET o] may answer with
SelectResults(matched, limitClause, offsetClause) ==
  LET skip == IF offsetClause.given THEN offsetClause.n ELSE 0
      left == Max(0, Cardinality(matched) - skip)
      take == IF limitClause.given THEN Min(limitClause.n, left) ELSE left
  IN {S \in SUBSET matched : Cardinality(S) = take}

\* the statement without its OFFSET clause
FindAllQueryNoOffset(where, limit, offset) ==
  [where |-> where, limit |-> ClauseIfTruthy(limit), offset |-> NotGiven]

\* the statement findAll builds from its options
FindAllQuery(where, limit, offset) ==
  [where |-> where, limit |-> ClauseIfTruthy(limit),
   offset |-> ClauseIfTruthy(offset)]

PageOffsetFromPage(page, pageSize) == page * pageSize

\* const offset = (page - 1) * pageSize
PageOffset(page, pageSize) == (page - 1) * pageSize

\* COUNT(*) arrives as the decimal text of a bigint
RECURSIVE CountText(_)
CountText(n) ==
  IF n < 10 THEN <<n>> ELSE Append(CountText(n \div 10), n % 10)

\* parseInt(result.count, 10)
RECURSIVE ParseInt(_)
ParseInt(text) ==
  IF Len(text) = 1 THEN text[1]
  ELSE 10 * ParseInt(SubSeq(text, 1, Len(text) - 1)) + text[Len(text)]

FloorDiv(total, pageSize) == total \div pageSize

\* Math.ceil(totalCount / pageSize), pageSize positive
CeilDiv(total, pageSize) ==
  IF total % pageSize = 0 THEN total \div pageSize
  ELSE (total \div pageSize) + 1

NoPage == [total |-> 0, page |-> 0, pageSize |-> 0, totalPages |-> 0]

NoQCall ==
  [op |-> "none", pc |-> "idle", where |-> Where({}, "", 0),
   limit |-> NotGiven, offset |-> NotGiven, page |-> 0, pageSize |-> 0,
   gotData |-> FALSE, gotCount |-> FALSE, data |-> {}, total |-> 0,
   result |-> NoPage, raised |-> NoErr, dbOk |-> TRUE, between |-> FALSE]

\* create has committed a row under a free key
QInsert ==
  /\ qcall.pc = "idle"
  /\ \E id \in QIds, v \in Vals :
       /\ qrows[id] = None
       /\ qrows' = [qrows EXCEPT ![id] = v]
  /\ UNCHANGED qcall
  /\ UNCHANGED <<earlierVars, markVars, loadVars, dropVars, lastVars>>

\* delete has removed a row
QRemove ==
  /\ qcall.pc = "idle"
  /\ \E id \in QIds :
       /\ qrows[id] # None
       /\ qrows' = [qrows EXCEPT ![id] = None]
  /\ UNCHANGED qcall
  /\ UNCHANGED <<earlierVars, markVars, loadVars, dropVars, lastVars>>

\* a caller invokes findAll({where, limit, offset})
FindAll ==
  /\ qcall.pc = "idle"
  /\ \E where \in Wheres,
        limit \in {NotGiven} \cup {Given(n) : n \in 0..MaxPageSize},
        offset \in {NotGiven} \cup {Given(n) : n \in 0..MaxPageSize} :
       qcall' = [NoQCall EXCEPT !.op = "findAll", !.pc = "select",
                                !.where = where, !.limit = limit,
                                !.offset = offset]
  /\ UNCHANGED qrows
  /\ UNCHANGED <<earlierVars, markVars, loadVars, dropVars, lastVars>>

\* findAll: return this.query(query, params), or its catch block
FindAllSelect ==
  /\ qcall.op = "findAll"
  /\ qcall.pc = "select"
  /\ LET q == FindAllQuery(qcall.where, qcall.limit, qcall.offset)
     IN \/ \E S \in SelectResults(Matching(qrows, q.where), q.limit, q.offset) :
             qcall' = [qcall EXCEPT !.data = S, !.gotData = TRUE,
                                    !.pc = "return"]
        \/ qcall' = [qcall EXCEPT !.raised = MethodErr("findAll"),
                                  !.dbOk = FALSE, !.pc = "return"]
  /\ UNCHANGED qrows
  /\ UNCHANGED <<earlierVars, markVars, loadVars, dropVars, lastVars>>

\* a caller invokes paginate(page, pageSize, where): findAll and count are
\* started together
Paginate ==
  /\ qcall.pc = "idle"
  /\ \E page \in 1..MaxPage, pageSize \in 1..MaxPageSize, where \in Wheres :
       qcall' = [NoQCall EXCEPT !.op = "paginate", !.pc = "all",
                                !.where = where, !.page = page,
                                !.pageSize = pageSize,
                                !.limit = Given(pageSize),
                                !.offset = Given(PageOffset(page, pageSize))]
  /\ UNCHANGED qrows
  /\ UNCHANGED <<earlierVars, markVars, loadVars, dropVars, lastVars>>

\* return { data, total, page, pageSize, totalPages } once both have settled
Page(c) ==
  IF c.gotData /\ c.gotCount
    THEN [c EXCEPT !.pc = "return",
                   !.result = [total |-> c.total, page |-> c.page,
                               pageSize |-> c.pageSize,
                               totalPages |-> CeilDiv(c.total, c.pageSize)]]
    ELSE c

\* the SELECT of paginate's findAll is answered, or findAll throws
PaginateSelect ==
  /\ qcall.op = "paginate"
  /\ qcall.pc = "all"
  /\ ~qcall.gotData
  /\ LET q == FindAllQuery(qcall.where, qcall.limit, qcall.offset)
     IN \/ \E S \in SelectResults(Matching(qrows, q.where), q.limit, q.offset) :
             qcall' = Page([qcall EXCEPT !.data = S, !.gotData = TRUE])
        \/ qcall' = [qcall EXCEPT !.raised = MethodErr("findAll"),
                                  !.dbOk = FALSE, !.pc = "return"]
  /\ UNCHANGED qrows
  /\ UNCHANGED <<earlierVars, markVars, loadVars, dropVars, lastVars>>

\* count: SELECT COUNT(*) ... is answered, or its error passes through
PaginateCount ==
  /\ qcall.op = "paginate"
  /\ qcall.pc = "all"
  /\ ~qcall.gotCount
  /\ \/ qcall' =
          Page([qcall EXCEPT
                  !.total = ParseInt(CountText(
                              Cardinality(Matching(qrows, qcall.where)))),
                  !.gotCount = TRUE])
     \/ qcall' = [qcall EXCEPT !.raised = DbErr("SELECT COUNT"),
                               !.dbOk = FALSE, !.pc = "return"]
  /\ UNCHANGED qrows
  /\ UNCHANGED <<earlierVars, markVars, loadVars, dropVars, lastVars>>

\* while paginate awaits its two statements, the database commits another
\* caller's write (paginate's statements go through pool.query one by one,
\* outside any transaction).  A write that changes the matching rows after
\* one of the two statements was answered and before the other is noted.
WrittenBetween(rows) ==
  /\ qcall.gotData # qcall.gotCount
  /\ Matching(rows, qcall.where) # Matching(qrows, qcall.where)

\* another caller's create commits a row while paginate is running
QInsertDuring ==
  /\ qcall.op = "paginate"
  /\ qcall.pc = "all"
  /\ \E id \in QIds, v \in Vals :
       /\ qrows[id] = None
       /\ qrows' = [qrows EXCEPT ![id] = v]
       /\ qcall' = [qcall EXCEPT !.between = @ \/ WrittenBetween(qrows')]
  /\ UNCHANGED <<earlierVars, markVars, loadVars, dropVars, lastVars>>

\* another caller's delete removes a row while paginate is running
QRemoveDuring ==
  /\ qcall.op = "paginate"
  /\ qcall.pc = "all"
  /\ \E id \in QIds :
       /\ qrows[id] # None
       /\ qrows' = [qrows EXCEPT ![id] = None]
       /\ qcall' = [qcall EXCEPT !.between = @ \/ WrittenBetween(qrows')]
  /\ UNCHANGED <<earlierVars, markVars, loadVars, dropVars, lastVars>>

\* the call has settled and its caller goes on
QReturn ==
  /\ qcall.pc = "return"
  /\ qcall' = NoQCall
  /\ UNCHANGED qrows
  /\ UNCHANGED <<earlierVars, markVars, loadVars, dropVars, lastVars>>

(***************************************************************************)
(* softDelete and restore.  The marker is the deletedAt column; a table    *)
(* has it when its schema declares the field (createTableIfNotExists       *)
(* makes one column per declared field).  User is the User of the example  *)
(* schema, which declares none; Article declares deletedAt as an optional  *)
(* timestamp.  A row is "live" (deletedAt IS NULL) or "deleted".           *)
(***************************************************************************)
MarkSchema ==
  [User |-> [fields |-> <<Field("id", "uuid"), Field("name", "varchar")>>],
   Article |-> [fields |-> <<Field("id", "uuid"), Field("title", "varchar"),
                             Field("deletedAt", "timestamp")>>]]

MarkTables == DOMAIN MarkSchema

HasDeletedAt(tbl) ==
  \E k \in 1..Len(MarkSchema[tbl].fields) :
    MarkSchema[tbl].fields[k].name = "deletedAt"

DeletedAtAny(state) == state # None

\* WHERE id = $1 AND "deletedAt" IS NULL
DeletedAtIsNull(state) == state = "live"

\* WHERE id = $1 AND "deletedAt" IS NOT NULL
DeletedAtIsNotNull(state) == state = "deleted"

NoMark == [op |-> "none", tbl |-> "", id |-> 0, returned |-> FALSE]

NoMarkCall ==
  [op |-> "none", pc |-> "idle", tbl |-> "", id |-> 0, result |-> "null",
   raised |-> NoErr, dbOk |-> TRUE, before |-> <<>>, prev |-> NoMark]

\* create has committed a row: deletedAt is what processFields makes of the
\* key the caller passed (a timestamp key holding no value becomes the
\* current date), and NULL when the key was left out
MarkCreate ==
  /\ mcall.pc = "idle"
  /\ \E tbl \in MarkTables, id \in KeyValues :
       /\ marks[tbl][id] = None
       /\ \E held \in (IF HasDeletedAt(tbl) THEN Held ELSE {"absent"}) :
            marks' = [marks EXCEPT ![tbl][id] =
                        IF ProcessField("timestamp", held) = "value"
                          THEN "deleted" ELSE "live"]
  /\ mcall' = NoMarkCall
  /\ UNCHANGED <<earlierVars, queryVars, loadVars, dropVars, lastVars>>

\* delete has removed a row
MarkRemove ==
  /\ mcall.pc = "idle"
  /\ \E tbl \in MarkTables, id \in KeyValues :
       /\ marks[tbl][id] # None
       /\ marks' = [marks EXCEPT ![tbl][id] = None]
  /\ mcall' = NoMarkCall
  /\ UNCHANGED <<earlierVars, queryVars, loadVars, dropVars, lastVars>>

\* a caller invokes softDelete(id) or restore(id)
MarkCall ==
  /\ mcall.pc = "idle"
  /\ \E op \in {"softDelete", "restore"}, tbl \in MarkTables, id \in KeyValues :
       mcall' = [NoMarkCall EXCEPT !.op = op, !.pc = "update", !.tbl = tbl,
                                   !.id = id, !.before = marks[tbl],
                                   !.prev = mcall.prev]
  /\ UNCHANGED marks
  /\ UNCHANGED <<earlierVars, queryVars, loadVars, dropVars, lastVars>>

\* the UPDATE ... RETURNING * of softDelete or restore is answered: the
\* database rejects it when the table has no deletedAt column, and may
\* reject any statement; return row || null
MarkUpdate(op, hits, marked) ==
  /\ mcall.op = op
  /\ mcall.pc = "update"
  /\ IF ~HasDeletedAt(mcall.tbl)
       THEN /\ mcall' = [mcall EXCEPT !.raised = DbErr("UPDATE"), !.pc = "return"]
            /\ UNCHANGED marks
       ELSE \/ /\ hits
               /\ marks' = [marks EXCEPT ![mcall.tbl][mcall.id] = marked]
               /\ mcall' = [mcall EXCEPT !.result = "row", !.pc = "return"]
            \/ /\ ~hits
               /\ mcall' = [mcall EXCEPT !.result = "null", !.pc = "return"]
               /\ UNCHANGED marks
            \/ /\ mcall' = [mcall EXCEPT !.raised = DbErr("UPDATE"),
                                         !.dbOk = FALSE, !.pc = "return"]
               /\ UNCHANGED marks
  /\ UNCHANGED <<earlierVars, queryVars, loadVars, dropVars, lastVars>>

\* softDelete: SET "deletedAt" = NOW() WHERE id = $1 AND "deletedAt" IS NULL
SoftDelete ==
  MarkUpdate("softDelete", DeletedAtIsNull(marks[mcall.tbl][mcall.id]), "deleted")

\* restore: SET "deletedAt" = NULL WHERE id = $1 AND "deletedAt" IS NOT NULL
Restore ==
  MarkUpdate("restore", DeletedAtIsNotNull(marks[mcall.tbl][mcall.id]), "live")

\* the call has settled and its caller goes on
MarkReturn ==
  /\ mcall.pc = "return"
  /\ mcall' = [NoMarkCall EXCEPT
                 !.prev = [op |-> mcall.op, tbl |-> mcall.tbl, id |-> mcall.id,
                           returned |-> mcall.raised = NoErr]]
  /\ UNCHANGED marks
  /\ UNCHANGED <<earlierVars, queryVars, loadVars, dropVars, lastVars>>

(***************************************************************************)
(* findAllWithRelations and loadRelations, over the User and Post tables   *)
(* of the schema above: a Post row holds the key of its User in userid.    *)
(* The id columns are VARCHAR (the column type of a uuid field), so the    *)
(* database compares an id with a parameter as text.                       *)
(***************************************************************************)
\* the rows of a table as findAll returns them; a User row has no userid
\* (the 0 stands for the missing field), and the Role table holds no rows
RowsOf(tbl) ==
  CASE tbl = "User" -> {[id |-> u, userid |-> 0] : u \in users}
    [] tbl = "Post" ->
         {[id |-> p, userid |-> posts[p]] : p \in {k \in KeyValues : posts[k] # 0}}
    [] OTHER -> {}

\* result[relationConfig.foreignKey] for every result, in result order; a
\* record without that field gives undefined
RelatedIds(tbl, results, foreignKey) ==
  LET ids == IdList({r.id : r \in results})
  IN [n \in 1..Len(ids) |->
        IF tbl = "User" THEN "undefined"
        ELSE ToString((CHOOSE r \in results : r.id = ids[n])[foreignKey])]

\* how pg sends an array parameter: the array literal {a,b,...}, an
\* undefined element as NULL
RECURSIVE ArrayItems(_)
ArrayItems(items) ==
  IF items = <<>> THEN <<>>
  ELSE <<IF Head(items) = "undefined" THEN "NULL" ELSE Head(items)>>
         \o (IF Tail(items) = <<>> THEN <<>> ELSE <<",">>)
         \o ArrayItems(Tail(items))

ArrayString(items) == <<"{">> \o ArrayItems(items) \o <<"}">>

\* the text of a stored id
IdText(id) == <<ToString(id)>>

\* SELECT * FROM "<model>" WHERE "id" = $1, the parameter being param
SelectById(model, param) == {r \in RowsOf(model) : IdText(r.id) = param}

Undefined == [kind |-> "undefined", ids |-> {}]

\* relatedData of one result
RelatedData(relation, result, relatedResults) ==
  IF relation.type \in {"hasOne", "belongsTo"}
    THEN LET found == {x \in relatedResults : x.id = result[relation.foreignKey]}
         IN IF found = {} THEN Undefined
            ELSE [kind |-> "row", ids |-> {x.id : x \in found}]
  ELSE IF relation.type = "hasMany"
    THEN [kind |-> "list",
          ids |-> {x.id : x \in {y \in relatedResults :
                                   y[relation.foreignKey] = result.id}}]
  ELSE Undefined

\* { ...result, [relation]: relatedData }
Extended(result, name, relatedData) ==
  [result EXCEPT !.loaded = Append(@, [name |-> name, data |-> relatedData])]

NoLoadCall ==
  [pc |-> "idle", tbl |-> "", asked |-> <<>>, relations |-> <<>>,
   results |-> {}, found |-> {}, raised |-> NoErr, dbOk |-> TRUE]

\* the models an accessor can be built for: new QueryBuilder(model, ...)
\* reads schema[model].fields
LoadModels == {"User", "Post", "Role"}

\* loadRelations up to its next await: the relation is looked up, and the
\* loop ends when no relation name is left
NextRelation(c) ==
  IF c.relations = <<>> THEN [c EXCEPT !.pc = "return"]
  ELSE IF Head(c.relations) \notin DOMAIN Schema[c.tbl].relations
    THEN [c EXCEPT !.raised = Err("RelationNotFound", c.tbl, "",
                                  <<Head(c.relations)>>, ""),
                   !.pc = "return"]
  ELSE IF Schema[c.tbl].relations[Head(c.relations)].model \notin LoadModels
    THEN [c EXCEPT !.raised = Err("TypeError", "", "", <<>>, ""), !.pc = "return"]
  ELSE [c EXCEPT !.pc = "related"]

\* create has committed a User row
LoadUserInsert ==
  /\ lcall.pc = "idle"
  /\ \E u \in KeyValues \ users : users' = users \cup {u}
  /\ UNCHANGED <<posts, lcall>>
  /\ UNCHANGED <<earlierVars, queryVars, markVars, dropVars, lastVars>>

\* create has committed a Post row of an existing User
LoadPostInsert ==
  /\ lcall.pc = "idle"
  /\ \E p \in KeyValues, u \in users :
       /\ posts[p] = 0
       /\ posts' = [posts EXCEPT ![p] = u]
  /\ UNCHANGED <<users, lcall>>
  /\ UNCHANGED <<earlierVars, queryVars, markVars, dropVars, lastVars>>

\* the names a caller may pass in the relations list
RelationNames(tbl) == DOMAIN Schema[tbl].relations \cup {"nope"}

\* a caller invokes findAllWithRelations({}, relations)
FindAllWithRelations ==
  /\ lcall.pc = "idle"
  /\ \E tbl \in Tables :
       \E relations \in Lists(RelationNames(tbl), MaxLoad) :
         lcall' = [NoLoadCall EXCEPT !.pc = "findAll", !.tbl = tbl,
                                     !.asked = relations,
                                     !.relations = relations]
  /\ UNCHANGED <<users, posts>>
  /\ UNCHANGED <<earlierVars, queryVars, markVars, dropVars, lastVars>>

\* const results = await this.findAll(options)
LoadFindAll ==
  /\ lcall.pc = "findAll"
  /\ \/ lcall' = NextRelation(
                   [lcall EXCEPT
                      !.results = {[id |-> r.id, userid |-> r.userid,
                                    loaded |-> <<>>] : r \in RowsOf(lcall.tbl)},
                      !.found = RowsOf(lcall.tbl)])
     \/ lcall' = [lcall EXCEPT !.raised = MethodErr("findAll"),
                               !.dbOk = FALSE, !.pc = "return"]
  /\ UNCHANGED <<users, posts>>
  /\ UNCHANGED <<earlierVars, queryVars, markVars, dropVars, lastVars>>

\* const relatedResults = await relatedQueryBuilder.findAll({where: {id:
\* relatedIds}}); then every result gets its relatedData
LoadRelated ==
  /\ lcall.pc = "related"
  /\ LET name == Head(lcall.relations)
         relation == Schema[lcall.tbl].relations[name]
         relatedIds == RelatedIds(lcall.tbl, lcall.results, relation.foreignKey)
         relatedResults == SelectById(relation.model, ArrayString(relatedIds))
     IN \/ lcall' = NextRelation(
                      [lcall EXCEPT
                         !.results = {Extended(r, name,
                                        RelatedData(relation, r, relatedResults))
                                      : r \in lcall.results},
                         !.relations = Tail(@)])
        \/ lcall' = [lcall EXCEPT !.raised = MethodErr("findAll"),
                                  !.dbOk = FALSE, !.pc = "return"]
  /\ UNCHANGED <<users, posts>>
  /\ UNCHANGED <<earlierVars, queryVars, markVars, dropVars, lastVars>>

\* the call has settled and its caller goes on
LoadReturn ==
  /\ lcall.pc = "return"
  /\ lcall' = NoLoadCall
  /\ UNCHANGED <<users, posts>>
  /\ UNCHANGED <<earlierVars, queryVars, markVars, dropVars, lastVars>>

(***************************************************************************)
(* dropTables of the Squirmy class (src/src/squirmy/index.ts): one DROP    *)
(* TABLE IF EXISTS ... CASCADE per model of the schema, in the order of    *)
(* the schema file.  A table comes to exist by the CREATE TABLE IF NOT     *)
(* EXISTS of its accessor's create.                                        *)
(***************************************************************************)
\* for (const modelName in this.schema): the models of the example schema
ModelNames ==
  <<"User", "Post", "Profile", "Role", "Comment", "Tag", "UserRoles", "PostTags">>

NoDropCall ==
  [pc |-> "idle", todo |-> <<>>, attempted |-> <<>>, failed |-> {},
   message |-> <<>>]

\* createTableIfNotExists of a model's accessor has created its table
DropCreateTable ==
  /\ dcall.pc = "idle"
  /\ \E name \in Range(ModelNames) \ dbTables : dbTables' = dbTables \cup {name}
  /\ UNCHANGED dcall
  /\ UNCHANGED <<earlierVars, queryVars, markVars, loadVars, lastVars>>

\* a caller invokes dropTables()
DropTables ==
  /\ dcall.pc = "idle"
  /\ dcall' = [NoDropCall EXCEPT !.pc = "drop", !.todo = ModelNames]
  /\ UNCHANGED dbTables
  /\ UNCHANGED <<earlierVars, queryVars, markVars, loadVars, lastVars>>

\* the loop after one statement: the next model, or
\* return `Tables in ${Object.keys(this.schema).join(', ')} deleted`
AfterDrop(c) ==
  IF Tail(c.todo) = <<>>
    THEN [c EXCEPT !.todo = <<>>, !.attempted = Append(@, Head(c.todo)),
                   !.message = ModelNames, !.pc = "return"]
    ELSE [c EXCEPT !.todo = Tail(@), !.attempted = Append(@, Head(c.todo))]

\* await this.query(`DROP TABLE IF EXISTS "${modelName}" CASCADE;`) in its
\* try block: an error is logged and the loop goes on
DropTable ==
  /\ dcall.pc = "drop"
  /\ \/ /\ dbTables' = dbTables \ {Head(dcall.todo)}
        /\ dcall' = AfterDrop(dcall)
     \/ /\ dcall' = AfterDrop([dcall EXCEPT !.failed = @ \cup {Head(dcall.todo)}])
        /\ UNCHANGED dbTables
  /\ UNCHANGED <<earlierVars, queryVars, markVars, loadVars, lastVars>>

\* dropTables has returned its message and its caller goes on
DropReturn ==
  /\ dcall.pc = "return"
  /\ dcall' = NoDropCall
  /\ UNCHANGED dbTables
  /\ UNCHANGED <<earlierVars, queryVars, markVars, loadVars, lastVars>>

(***************************************************************************)
(* createTableIfNotExists and the belongsTo relation of its table.  The    *)
(* schema is what the engine loaded from its schema file; the author       *)
(* relation of Post ranges over the relation descriptors such a file can   *)
(* hold.  The Post table comes to exist by the first CREATE TABLE IF NOT   *)
(* EXISTS the database accepts.                                            *)
(***************************************************************************)
\* the models a relation of Post may name: User declares primaryKey "id"
\* (and has an email column), Audit declares no primaryKey, and a model
\* named Ghost is not in the schema
RefSchema ==
  [User |-> [primaryKey |-> "id"], Audit |-> [primaryKey |-> ""]]

\* this.fields of the Post accessor
PostFields == {"id", "title", "userid"}

\* type Relation: the descriptors the author relation is drawn from
RelationDescriptors ==
  [type : {"belongsTo", "hasMany"},
   model : {"User", "Audit", "Ghost"},
   foreignKey : {"userid", "ownerId"},
   references : {"", "id", "email"},
   onDelete : {"", "CASCADE"},
   onUpdate : {"", "SET NULL"}]

\* the author relation of the example schema
ExampleAuthor ==
  [type |-> "belongsTo", model |-> "User", foreignKey |-> "userid",
   references |-> "id", onDelete |-> "", onUpdate |-> ""]

\* the checks the map over the belongsTo relations makes, in their order;
\* "" when none throws
ForeignKeyError(relation) ==
  IF relation.foreignKey \notin PostFields
    THEN "Foreign key column not defined in fields"
  ELSE IF relation.model \notin DOMAIN RefSchema
    THEN "Related model not found in schema"
  ELSE IF RefSchema[relation.model].primaryKey = ""
    THEN "Primary key for related model not defined"
  ELSE ""

\* , FOREIGN KEY ("fk") REFERENCES "model" ("references || primaryKey")
\*   [ON DELETE ...] [ON UPDATE ...]
ForeignKeyConstraint(relation) ==
  [column |-> relation.foreignKey,
   table |-> relation.model,
   references |-> IF relation.references # "" THEN relation.references
                  ELSE RefSchema[relation.model].primaryKey,
   onDelete |-> relation.onDelete,
   onUpdate |-> relation.onUpdate]

\* Object.entries(this.relations).filter(belongsTo).map(...)
foreignKeyConstraints(relation) ==
  IF relation.type = "belongsTo" THEN <<ForeignKeyConstraint(relation)>>
  ELSE <<>>

NoTable == [exists |-> FALSE, constraints |-> <<>>]

NoTableCall ==
  [pc |-> "idle", built |-> <<>>, sent |-> <<>>, raised |-> NoErr, dbOk |-> TRUE]

\* an engine is constructed over a schema file and a fresh database
TableLoadSchema ==
  /\ ctcall.pc = "idle"
  /\ \E relation \in RelationDescriptors : loaded' = relation
  /\ postTable' = NoTable
  /\ UNCHANGED ctcall
  /\ UNCHANGED <<settledVars, bindVars, poolVars, raceVars, strategyVars>>

\* create of the Post accessor reaches await this.createTableIfNotExists()
TableCreateStart ==
  /\ ctcall.pc = "idle"
  /\ ctcall' = [NoTableCall EXCEPT !.pc = "build"]
  /\ UNCHANGED <<loaded, postTable>>
  /\ UNCHANGED <<settledVars, bindVars, poolVars, raceVars, strategyVars>>

\* the statement text is built; a throw inside lands in the catch block,
\* which throws `There was an error creating a new table`
TableBuild ==
  /\ ctcall.pc = "build"
  /\ ctcall' = IF loaded.type = "belongsTo" /\ ForeignKeyError(loaded) # ""
                 THEN [ctcall EXCEPT !.raised = CreateTableErr, !.pc = "return"]
                 ELSE [ctcall EXCEPT !.built = foreignKeyConstraints(loaded),
                                     !.pc = "query"]
  /\ UNCHANGED <<loaded, postTable>>
  /\ UNCHANGED <<settledVars, bindVars, poolVars, raceVars, strategyVars>>

\* await this.query(createTableQuery)
TableQuery ==
  /\ ctcall.pc = "query"
  /\ \/ /\ postTable' = IF postTable.exists THEN postTable
                        ELSE [exists |-> TRUE, constraints |-> ctcall.built]
        /\ ctcall' = [ctcall EXCEPT !.sent = <<ctcall.built>>, !.pc = "return"]
     \/ /\ ctcall' = [ctcall EXCEPT !.sent = <<ctcall.built>>, !.dbOk = FALSE,
                                    !.raised = CreateTableErr, !.pc = "return"]
        /\ UNCHANGED postTable
  /\ UNCHANGED loaded
  /\ UNCHANGED <<settledVars, bindVars, poolVars, raceVars, strategyVars>>

\* createTableIfNotExists has settled and create goes on
TableReturn ==
  /\ ctcall.pc = "return"
  /\ ctcall' = NoTableCall
  /\ UNCHANGED <<loaded, postTable>>
  /\ UNCHANGED <<settledVars, bindVars, poolVars, raceVars, strategyVars>>

(***************************************************************************)
(* The statements create, update and updateMany build: the columns of the  *)
(* write set, the placeholder each is paired with, and the parameter list  *)
(* handed to query() with the text.  A data map is the sequence of its     *)
(* entries in the order Object.entries lists them; a value is tagged with  *)
(* the key it was given under, so that a value bound to the wrong column   *)
(* shows.                                                                  *)
(***************************************************************************)
BindTables == {"Account", "Ticket"}

\* sequences of distinct entries over the names, at most n long
RECURSIVE EntriesOver(_, _, _)
EntriesOver(names, helds, n) ==
  IF n = 0 THEN {<<>>}
  ELSE {<<>>} \cup
       UNION {{<<[key |-> name, held |-> held]>> \o rest :
                 rest \in EntriesOver(names \ {name}, helds, n - 1)} :
              name \in names, held \in helds}

\* the data maps a caller may pass for the table
BindData(tbl) ==
  EntriesOver(Range(FieldNames(tbl)), Held \ {"absent"}, Len(FieldNames(tbl)))

\* the filters a caller may pass to updateMany
BindWhere(tbl) == EntriesOver(Range(FieldNames(tbl)), {"value"}, 2)

\* processFields over the entries: a serial field is left out, every other
\* field keeps its place
RECURSIVE ProcessedEntries(_, _)
ProcessedEntries(tbl, entries) ==
  IF entries = <<>> THEN <<>>
  ELSE LET e == Head(entries)
           out == ProcessField(FieldType(tbl, e.key), e.held)
       IN (IF out = "omitted" THEN <<>>
           ELSE <<[key |-> e.key, value |-> [of |-> e.key, is |-> out]]>>)
          \o ProcessedEntries(tbl, Tail(entries))

\* Object.keys(processedData), Object.values(processedData)
EntryKeys(entries) == [i \in 1..Len(entries) |-> entries[i].key]
EntryValues(entries) == [i \in 1..Len(entries) |-> entries[i].value]

\* keys.map((key, index) => `"${key}" = $${index + 1}`), with index from 1
Placeholders(keys, from) ==
  [i \in 1..Len(keys) |-> [column |-> keys[i], placeholder |-> from + i]]

\* the placeholders after the SET list: $${keys.length + 1} of update and
\* $${setKeys.length + index + 1} of updateMany
WherePlaceholdersFromOne(setKeys, whereKeys) == Placeholders(whereKeys, 0)

WherePlaceholders(setKeys, whereKeys) == Placeholders(whereKeys, Len(setKeys))

\* the filter of updateMany, as given: Object.values(where)
WhereValues(where) ==
  [i \in 1..Len(where) |-> [of |-> where[i].key, is |-> where[i].held]]

NoStatement ==
  [op |-> "none", tbl |-> "", data |-> <<>>, where |-> <<>>, id |-> 0,
   columns |-> <<>>, filter |-> <<>>, params |-> <<>>]

\* create: INSERT INTO t (keys) VALUES ($1, ..) with values
BindCreate ==
  /\ bstmt.op = "none"
  /\ \E tbl \in BindTables :
       \E data \in BindData(tbl) :
         LET processed == ProcessedEntries(tbl, data)
         IN bstmt' = [NoStatement EXCEPT
                        !.op = "create", !.tbl = tbl, !.data = data,
                        !.columns = Placeholders(EntryKeys(processed), 0),
                        !.params = EntryValues(processed)]
  /\ UNCHANGED <<settledVars, tableVars, poolVars, raceVars, strategyVars>>

\* update: UPDATE t SET k = $i, .. WHERE id = $n+1 with [...values, id]
BindUpdate ==
  /\ bstmt.op = "none"
  /\ \E tbl \in BindTables :
       \E data \in BindData(tbl), id \in KeyValues :
         LET processed == ProcessedEntries(tbl, data)
             keys == EntryKeys(processed)
         IN bstmt' = [NoStatement EXCEPT
                        !.op = "update", !.tbl = tbl, !.data = data, !.id = id,
                        !.columns = Placeholders(keys, 0),
                        !.filter = WherePlaceholders(keys, <<"id">>),
                        !.params = EntryValues(processed)
                                     \o <<[of |-> "id", is |-> id]>>]
  /\ UNCHANGED <<settledVars, tableVars, poolVars, raceVars, strategyVars>>

\* updateMany: UPDATE t SET k = $i, .. WHERE w = $n+j AND .. with
\* [...setValues, ...whereValues]
BindUpdateMany ==
  /\ bstmt.op = "none"
  /\ \E tbl \in BindTables :
       \E data \in BindData(tbl), where \in BindWhere(tbl) :
         LET processed == ProcessedEntries(tbl, data)
             setKeys == EntryKeys(processed)
         IN bstmt' = [NoStatement EXCEPT
                        !.op = "updateMany", !.tbl = tbl, !.data = data,
                        !.where = where,
                        !.columns = Placeholders(setKeys, 0),
                        !.filter = WherePlaceholders(setKeys, EntryKeys(where)),
                        !.params = EntryValues(processed) \o WhereValues(where)]
  /\ UNCHANGED <<settledVars, tableVars, poolVars, raceVars, strategyVars>>

\* the statement has been handed to query() and the call goes on
BindSent ==
  /\ bstmt.op # "none"
  /\ bstmt' = NoStatement
  /\ UNCHANGED <<settledVars, tableVars, poolVars, raceVars, strategyVars>>

(***************************************************************************)
(* Concurrent creates over one pool.  Every caller runs create as above:   *)
(* withTransaction checks a client out for the whole call, and inside it   *)
(* createTableIfNotExists sends its statement through pool.query, and a    *)
(* hasMany or hasOne payload awaits the related table's create, which      *)
(* checks out a client of its own.  pool.connect() and pool.query() wait   *)
(* for an idle client when every client is checked out (pg's default       *)
(* connectionTimeoutMillis is 0: no timeout).  The database answers every  *)
(* statement here.                                                         *)
(***************************************************************************)
Callers == 1..NumCallers

PoolFrame(items) == [pc |-> "connect", client |-> 0, items |-> items]

\* clients checked out by the frames of the running creates
HeldClients ==
  {creates[c][i].client : c \in Callers, i \in 1..2} \ {0}

IdleClients == Conns \ HeldClients

\* a caller invokes create(data, {posts: items}); the payload may be empty
PoolCreateStart(c) ==
  /\ creates[c][1].pc = "idle"
  /\ \E items \in 0..MaxPayload :
       creates' = [creates EXCEPT ![c][1] = PoolFrame(items)]
  /\ UNCHANGED <<settledVars, tableVars, bindVars, raceVars, strategyVars>>

\* the frame of caller c that is running: the related create when awaited
Running(c) == IF creates[c][2].pc # "idle" THEN 2 ELSE 1

\* const client = await this.pool.connect()
PoolConnect(c) ==
  /\ creates[c][Running(c)].pc = "connect"
  /\ IdleClients # {}
  /\ creates' = [creates EXCEPT
                   ![c][Running(c)].client =
                     CHOOSE k \in IdleClients : \A d \in IdleClients : k <= d,
                   ![c][Running(c)].pc = "begin"]
  /\ UNCHANGED <<settledVars, tableVars, bindVars, raceVars, strategyVars>>

\* await client.query('BEGIN')
PoolBegin(c) ==
  /\ creates[c][Running(c)].pc = "begin"
  /\ creates' = [creates EXCEPT ![c][Running(c)].pc = "createTable"]
  /\ UNCHANGED <<settledVars, tableVars, bindVars, raceVars, strategyVars>>

\* await this.createTableIfNotExists(): this.pool.query takes an idle
\* client for the statement and gives it back
PoolCreateTable(c) ==
  /\ creates[c][Running(c)].pc = "createTable"
  /\ IdleClients # {}
  /\ creates' = [creates EXCEPT ![c][Running(c)].pc = "insert"]
  /\ UNCHANGED <<settledVars, tableVars, bindVars, raceVars, strategyVars>>

\* await client.query(INSERT ...); then the relations loop
PoolInsert(c) ==
  /\ creates[c][Running(c)].pc = "insert"
  /\ creates' = [creates EXCEPT
                   ![c][Running(c)].pc =
                     IF creates[c][Running(c)].items > 0 THEN "related"
                     ELSE "commit"]
  /\ UNCHANGED <<settledVars, tableVars, bindVars, raceVars, strategyVars>>

\* createRelatedRecords: await relatedQueryBuilder.create({...item})
PoolCallRelated(c) ==
  /\ creates[c][1].pc = "related"
  /\ creates' = [creates EXCEPT ![c][1].pc = "await", ![c][2] = PoolFrame(0)]
  /\ UNCHANGED <<settledVars, tableVars, bindVars, raceVars, strategyVars>>

\* await client.query('COMMIT'); finally { client.release() }
PoolCommit(c) ==
  /\ creates[c][Running(c)].pc = "commit"
  /\ creates' = [creates EXCEPT ![c][Running(c)].pc = "return",
                                ![c][Running(c)].client = 0]
  /\ UNCHANGED <<settledVars, tableVars, bindVars, raceVars, strategyVars>>

IdleFrame == [pc |-> "idle", client |-> 0, items |-> 0]

\* the related create has returned: the next item, or the end of the loop
PoolRelatedReturn(c) ==
  /\ creates[c][2].pc = "return"
  /\ creates' = [creates EXCEPT
                   ![c][2] = IdleFrame,
                   ![c][1].items = @ - 1,
                   ![c][1].pc = IF creates[c][1].items > 1 THEN "related"
                                ELSE "commit"]
  /\ UNCHANGED <<settledVars, tableVars, bindVars, raceVars, strategyVars>>

\* create has returned and its caller goes on
PoolReturn(c) ==
  /\ creates[c][1].pc = "return"
  /\ creates' = [creates EXCEPT ![c][1] = IdleFrame]
  /\ UNCHANGED <<settledVars, tableVars, bindVars, raceVars, strategyVars>>

(***************************************************************************)
(* Two updateManyToManyRelation calls for one source at the same time.     *)
(* Each call is the incremental diff above, one awaited statement per      *)
(* step; the steps of the two calls interleave in any order, which         *)
(* includes one call running to its end before the other sends anything.   *)
(***************************************************************************)
NoRaceCall == [pc |-> "idle", targetIds |-> <<>>, toAdd |-> <<>>, toRemove |-> <<>>]

NoRace == [source |-> 0, overlapped |-> FALSE, calls |-> <<NoRaceCall, NoRaceCall>>]

\* the other of the two calls
Other(i) == 3 - i

\* call i takes a step while the other call is between two of its statements
Overlaps(i) == race.calls[Other(i)].pc \in {"insert", "delete"}

\* the source both calls reconcile: the first one, the others being alike
RaceSources == {s \in Sources : \A o \in Sources : s <= o}

\* two callers invoke updateManyToManyRelation(roles, s, T1) and (roles, s, T2)
RaceStart ==
  /\ race.calls[1].pc = "idle"
  /\ race.calls[2].pc = "idle"
  /\ \E s \in RaceSources, ids1 \in Lists(Targets, MaxLen), ids2 \in Lists(Targets, MaxLen) :
       /\ ~InvalidM2MConfig(RolesRelation)
       /\ Fits(junction, Len(ids1) + Len(ids2))
       /\ race' = [NoRace EXCEPT
                     !.source = s,
                     !.calls = <<[NoRaceCall EXCEPT !.pc = "select", !.targetIds = ids1],
                                 [NoRaceCall EXCEPT !.pc = "select", !.targetIds = ids2]>>]
  /\ UNCHANGED junction
  /\ UNCHANGED <<exceptJunction, tableVars, bindVars, poolVars, strategyVars>>

\* const existingRelations = await this.query(SELECT ...); toAdd, toRemove
RaceSelect(i) ==
  /\ race.calls[i].pc = "select"
  /\ LET existingIds == SelectRelated(junction, race.source)
         toAdd == ToAdd(race.calls[i].targetIds, existingIds)
         toRemove == ToRemove(race.calls[i].targetIds, existingIds)
     IN race' = [race EXCEPT
                   !.overlapped = @ \/ Overlaps(i),
                   !.calls[i].toAdd = toAdd,
                   !.calls[i].toRemove = toRemove,
                   !.calls[i].pc = LoopPc(toAdd, toRemove)]
  /\ UNCHANGED junction
  /\ UNCHANGED <<exceptJunction, tableVars, bindVars, poolVars, strategyVars>>

\* for (const id of toAdd) await this.query(INSERT ...)
RaceInsert(i) ==
  /\ race.calls[i].pc = "insert"
  /\ junction' = InsertPair(junction, race.source, Head(race.calls[i].toAdd))
  /\ race' = [race EXCEPT
                !.overlapped = @ \/ Overlaps(i),
                !.calls[i].toAdd = Tail(@),
                !.calls[i].pc = LoopPc(Tail(race.calls[i].toAdd),
                                       race.calls[i].toRemove)]
  /\ UNCHANGED <<exceptJunction, tableVars, bindVars, poolVars, strategyVars>>

\* for (const id of toRemove) await this.query(DELETE ...)
RaceDelete(i) ==
  /\ race.calls[i].pc = "delete"
  /\ junction' = DeletePair(junction, race.source, Head(race.calls[i].toRemove))
  /\ race' = [race EXCEPT
                !.overlapped = @ \/ Overlaps(i),
                !.calls[i].toRemove = Tail(@),
                !.calls[i].pc = LoopPc(<<>>, Tail(race.calls[i].toRemove))]
  /\ UNCHANGED <<exceptJunction, tableVars, bindVars, poolVars, strategyVars>>

\* the database rejects the statement call i is about to await: query rethrows
RaceQueryFails(i) ==
  /\ race.calls[i].pc \in {"select", "insert", "delete"}
  /\ race' = [race EXCEPT !.calls[i].pc = "failed"]
  /\ UNCHANGED junction
  /\ UNCHANGED <<exceptJunction, tableVars, bindVars, poolVars, strategyVars>>

\* both calls have settled and their callers go on
RaceReturn ==
  /\ race.calls[1].pc \in {"done", "failed"}
  /\ race.calls[2].pc \in {"done", "failed"}
  /\ race' = NoRace
  /\ UNCHANGED junction
  /\ UNCHANGED <<exceptJunction, tableVars, bindVars, poolVars, strategyVars>>

(***************************************************************************)
(* The two reconciliation strategies, run from the same junction rows with *)
(* the same target list: the incremental diff of querybuilder.ts above,    *)
(* and updateManyToManyRelation of QueryBuilder.class.ts, which deletes    *)
(* every row of the source and inserts one row per element of targetIds.   *)
(* The database answers every statement.  The rows the source starts with  *)
(* are any the calls above can leave, a pair stored twice included.        *)
(***************************************************************************)
\* DELETE FROM junction WHERE foreignKey = s
DeleteSource(j, s) == [p \in DOMAIN j |-> IF p[1] = s THEN 0 ELSE j[p]]

RECURSIVE InsertEach(_, _, _)
\* for (const id of ids) await this.query(INSERT ...)
InsertEach(j, s, ids) ==
  IF ids = <<>> THEN j
  ELSE InsertEach(InsertPair(j, s, Head(ids)), s, Tail(ids))

RECURSIVE DeleteEach(_, _, _)
\* for (const id of ids) await this.query(DELETE ...)
DeleteEach(j, s, ids) ==
  IF ids = <<>> THEN j
  ELSE DeleteEach(DeletePair(j, s, Head(ids)), s, Tail(ids))

\* QueryBuilder.class.ts: remove existing relations, add new relations
DeleteAllThenReinsert(j, s, targetIds) ==
  InsertEach(DeleteSource(j, s), s, targetIds)

\* querybuilder.ts: SELECT, toAdd, toRemove, the two loops
IncrementalDiff(j, s, targetIds) ==
  LET existingIds == SelectRelated(j, s)
  IN DeleteEach(InsertEach(j, s, ToAdd(targetIds, existingIds)), s,
                ToRemove(targetIds, existingIds))

\* junction tables holding rows of the source alone, at most MaxRows of them
RowsFor(s) ==
  {j \in {[p \in Ids \X Targets |-> IF p[1] = s THEN n[p[2]] ELSE 0] :
            n \in [Targets -> 0..MaxRows]} :
     TotalRows(j) <= MaxRows}

NoStrategy ==
  [pc |-> "idle", source |-> 0, before |-> EmptyJunction, targetIds |-> <<>>,
   ran |-> {}, diff |-> EmptyJunction, reinsert |-> EmptyJunction]

\* the same reconciliation is asked of both entry points
StrategyStart ==
  /\ strategy.pc = "idle"
  /\ \E s \in RaceSources, ids \in Lists(Targets, MaxLen) :
       \E j \in RowsFor(s) :
         strategy' = [NoStrategy EXCEPT !.pc = "run", !.source = s,
                                        !.before = j, !.targetIds = ids]
  /\ UNCHANGED <<settledVars, tableVars, bindVars, poolVars, raceVars>>

\* updateManyToManyRelation of querybuilder.ts runs to its end
StrategyDiff ==
  /\ strategy.pc = "run"
  /\ "diff" \notin strategy.ran
  /\ strategy' = [strategy EXCEPT
                    !.ran = @ \cup {"diff"},
                    !.diff = IncrementalDiff(strategy.before, strategy.source,
                                             strategy.targetIds)]
  /\ UNCHANGED <<settledVars, tableVars, bindVars, poolVars, raceVars>>

\* updateManyToManyRelation of QueryBuilder.class.ts runs to its end
StrategyReinsert ==
  /\ strategy.pc = "run"
  /\ "reinsert" \notin strategy.ran
  /\ strategy' = [strategy EXCEPT
                    !.ran = @ \cup {"reinsert"},
                    !.reinsert = DeleteAllThenReinsert(strategy.before,
                                                       strategy.source,
                                                       strategy.targetIds)]
  /\ UNCHANGED <<settledVars, tableVars, bindVars, poolVars, raceVars>>

\* both calls have returned
StrategyReturn ==
  /\ strategy.pc = "run"
  /\ strategy.ran = {"diff", "reinsert"}
  /\ strategy' = NoStrategy
  /\ UNCHANGED <<settledVars, tableVars, bindVars, poolVars, raceVars>>

Init ==
  /\ junction = EmptyJunction
  /\ m2m = Idle
  /\ stack = <<>>
  /\ inUse = {}
  /\ releases = [c \in Conns |-> 0]
  /\ committed = {}
  /\ pending = [c \in Conns |-> {}]
  /\ nextId = 1
  /\ log = <<>>
  /\ raisedRows = {}
  /\ catalog = [tbl \in TypedTables |-> <<>>]
  /\ tcall = NoTypedCall
  /\ tableRows = [id \in KeyValues |-> None]
  /\ cache = [id \in KeyValues |-> None]
  /\ call = NoCall
  /\ lastCreated = NoRecord
  /\ relRows = [tbl \in Tables |-> [id \in KeyValues |-> None]]
  /\ rcall = NoRelCall
  /\ qrows = [id \in QIds |-> None]
  /\ qcall = NoQCall
  /\ marks = [tbl \in MarkTables |-> [id \in KeyValues |-> None]]
  /\ mcall = NoMarkCall
  /\ users = {}
  /\ posts = [p \in KeyValues |-> 0]
  /\ lcall = NoLoadCall
  /\ dbTables = {}
  /\ dcall = NoDropCall
  /\ loaded = ExampleAuthor
  /\ postTable = NoTable
  /\ ctcall = NoTableCall
  /\ bstmt = NoStatement
  /\ creates = [c \in Callers |-> <<IdleFrame, IdleFrame>>]
  /\ race = NoRace
  /\ strategy = NoStrategy

NextM2M ==
  \/ M2MUpdateStart
  \/ M2MUpdateAgain
  \/ M2MSelect
  \/ M2MInsert
  \/ M2MDelete
  \/ M2MCreateStart
  \/ M2MCreateInsert
  \/ M2MQueryFails
  \/ M2MReturn

SpecM2M == Init /\ [][NextM2M]_vars

NextOps ==
  \/ CreateStart
  \/ Connect
  \/ Begin
  \/ CreateTable
  \/ Insert
  \/ CallRelated
  \/ RelatedReturn
  \/ ForeignKey
  \/ JunctionInsert
  \/ Commit
  \/ Rollback
  \/ UpdateStart
  \/ UpdateRow
  \/ Return

SpecOps == Init /\ [][NextOps]_vars

NextTyped ==
  \/ TypedCreateStart
  \/ TypedCreateTable
  \/ TypedInsert
  \/ TypedReturn

SpecTyped == Init /\ [][NextTyped]_vars

NextCache ==
  \/ FindById
  \/ FindByIdQuery
  \/ RecCreate
  \/ RecUpdate
  \/ RecDelete
  \/ CacheExpire
  \/ RecReturn

SpecCache == Init /\ [][NextCache]_vars

NextRel ==
  \/ RelCreate
  \/ RelUpdate
  \/ ManyStart
  \/ ManyUpdate
  \/ UpdateRelationStep
  \/ ManyCommit
  \/ ManyRollback
  \/ RelReturn

SpecRel == Init /\ [][NextRel]_vars

NextQuery ==
  \/ QInsert
  \/ QRemove
  \/ FindAll
  \/ FindAllSelect
  \/ Paginate
  \/ PaginateSelect
  \/ PaginateCount
  \/ QReturn

SpecQuery == Init /\ [][NextQuery]_vars

\* the same calls with other callers writing while paginate is running
NextQueryConcurrent ==
  \/ NextQuery
  \/ QInsertDuring
  \/ QRemoveDuring

SpecQueryConcurrent == Init /\ [][NextQueryConcurrent]_vars

NextMark ==
  \/ MarkCreate
  \/ MarkRemove
  \/ MarkCall
  \/ SoftDelete
  \/ Restore
  \/ MarkReturn

SpecMark == Init /\ [][NextMark]_vars

NextLoad ==
  \/ LoadUserInsert
  \/ LoadPostInsert
  \/ FindAllWithRelations
  \/ LoadFindAll
  \/ LoadRelated
  \/ LoadReturn

SpecLoad == Init /\ [][NextLoad]_vars

NextDrop ==
  \/ DropCreateTable
  \/ DropTables
  \/ DropTable
  \/ DropReturn

SpecDrop == Init /\ [][NextDrop]_vars

NextTable ==
  \/ TableLoadSchema
  \/ TableCreateStart
  \/ TableBuild
  \/ TableQuery
  \/ TableReturn

SpecTable == Init /\ [][NextTable]_vars

NextBind ==
  \/ BindCreate
  \/ BindUpdate
  \/ BindUpdateMany
  \/ BindSent

SpecBind == Init /\ [][NextBind]_vars

\* one step of the create of caller c
PoolStep(c) ==
  \/ PoolBegin(c)
  \/ PoolInsert(c)
  \/ PoolCallRelated(c)
  \/ PoolCommit(c)
  \/ PoolRelatedReturn(c)
  \/ PoolReturn(c)

NextPool ==
  \E c \in Callers :
    \/ PoolCreateStart(c)
    \/ PoolConnect(c)
    \/ PoolCreateTable(c)
    \/ PoolStep(c)

\* every await resumes once the database has answered, and the pool hands
\* an idle client to a waiting caller (its queue is first in, first out)
SpecPoolLive ==
  /\ Init
  /\ [][NextPool]_vars
  /\ \A c \in Callers :
       /\ WF_vars(PoolStep(c))
       /\ SF_vars(PoolConnect(c))
       /\ SF_vars(PoolCreateTable(c))

NextRace ==
  \/ RaceStart
  \/ \E i \in 1..2 :
       \/ RaceSelect(i)
       \/ RaceInsert(i)
       \/ RaceDelete(i)
       \/ RaceQueryFails(i)
  \/ RaceReturn

SpecRace == Init /\ [][NextRace]_vars

NextStrategy ==
  \/ StrategyStart
  \/ StrategyDiff
  \/ StrategyReinsert
  \/ StrategyReturn

SpecStrategy == Init /\ [][NextStrategy]_vars

(***************************************************************************)
(* Claims about many-to-many reconciliation (checked under SpecM2M).       *)
(***************************************************************************)
RECURSIVE CountStmt(_, _, _)
\* how many statements of the kind the log holds for related identifier t
CountStmt(stmts, kind, t) ==
  IF stmts = <<>> THEN 0
  ELSE (IF Head(stmts).kind = kind /\ Head(stmts).target = t THEN 1 ELSE 0)
       + CountStmt(Tail(stmts), kind, t)

UpdateCompleted == m2m.pc = "done" /\ m2m.op = "update"

\* C5: after updateManyToManyRelation completes, the junction table holds for
\* the source exactly one row per element of the target set and no other row,
\* whatever the prior junction state and the target list were.
C5_ExactlyOneRowPerTarget ==
  UpdateCompleted =>
    \A t \in Targets :
      junction[<<m2m.source, t>>] = IF t \in Range(m2m.targetIds) THEN 1 ELSE 0

\* C6: reconciling the same source to the same target set a second time
\* leaves the junction table as the first call left it (no pair added twice,
\* none lost) and issues no INSERT and no DELETE.
C6_SecondReconcileChangesNothing ==
  (UpdateCompleted /\ m2m.second) =>
    /\ junction = m2m.before
    /\ \A t \in Targets :
         /\ CountStmt(m2m.log, "INSERT", t) = 0
         /\ CountStmt(m2m.log, "DELETE", t) = 0

\* a second reconciliation of a source with two related rows has completed
C6_Witness ==
  /\ UpdateCompleted
  /\ m2m.second
  /\ Cardinality(Range(m2m.targetIds)) >= 2
  /\ \A t \in Range(m2m.targetIds) : junction[<<m2m.source, t>>] >= 1

\* C7: a completed reconciliation has issued exactly one INSERT per
\* identifier of target minus current, exactly one DELETE per identifier of
\* current minus target, and no INSERT or DELETE for any other identifier.
C7_OneStatementPerChangedId ==
  UpdateCompleted =>
    LET target == Range(m2m.targetIds)
        current == Range(m2m.existingIds)
    IN \A t \in Targets :
         /\ CountStmt(m2m.log, "INSERT", t) = (IF t \in target \ current THEN 1 ELSE 0)
         /\ CountStmt(m2m.log, "DELETE", t) = (IF t \in current \ target THEN 1 ELSE 0)

(***************************************************************************)
(* Claims about withTransaction, create and validation (checked under      *)
(* SpecOps).  A call is judged when it has settled (pc = "return"), before *)
(* its caller goes on.                                                     *)
(***************************************************************************)
Calls == 1..Len(stack)

Settled(i) == stack[i].pc = "return"

\* statements of the kind that call i has sent
SentBy(i, kind) ==
  {n \in (stack[i].logStart + 1)..Len(log) : log[n].depth = i /\ log[n].kind = kind}

StoredIn(tbl, id) == \E r \in committed : r.tbl = tbl /\ r.id = id

RequiredOf(tbl) == Range(Schema[tbl].required)

DeclaredIn(tbl) == Range(Schema[tbl].fields) \cup Range(Schema[tbl].optional)

\* the message lists exactly the names of S, each once
NamesExactly(e, S) == Range(e.fields) = S /\ Len(e.fields) = Cardinality(S)

\* C1: when create has inserted the parent row and relation resolution then
\* raises, the parent row is not in the table once create has returned, nor
\* at any later time.
C1_ParentRowAbsentAfterRelationError ==
  /\ \A i \in Calls :
       (/\ Settled(i)
        /\ stack[i].op = "create"
        /\ stack[i].thrownAt = "relation"
        /\ stack[i].row # 0) => ~StoredIn(stack[i].tbl, stack[i].row)
  /\ \A x \in raisedRows : ~StoredIn(x.tbl, x.id)

\* a create whose related create raised has returned, its parent row inserted
C1_Witness ==
  /\ Depth = 1
  /\ Settled(1)
  /\ Top.thrownAt = "relation"
  /\ Top.row # 0
  /\ Top.raised.wraps = <<"create", "create">>
  /\ committed # {}

\* C2: every statement sent while create's transaction scope is open is sent
\* on the connection withTransaction acquired for it, never on another
\* connection of the pool.
C2_StatementsOnTransactionConnection ==
  (stack # <<>> /\ stack[1].op = "create") =>
    \A n \in 1..Len(log) : log[n].conn = stack[1].client

\* C3: when the unit of work of withTransaction raised E (BEGIN, the
\* callback or COMMIT), ROLLBACK was sent on the acquired connection and the
\* error withTransaction raises is E.
C3_RollbackThenOriginalError ==
  \A i \in Calls :
    (Settled(i) /\ stack[i].thrown # NoErr) =>
      /\ \E n \in SentBy(i, "ROLLBACK") : log[n].conn = stack[i].client
      /\ stack[i].raised = stack[i].thrown

\* C4: a connection withTransaction acquired is released exactly once on
\* every way out, and held until then; when every call has returned no
\* connection is checked out.
C4_ReleasedExactlyOnce ==
  /\ stack = <<>> => inUse = {}
  /\ \A c \in Conns : releases[c] <= 1
  /\ \A i \in Calls :
       stack[i].client # 0 =>
         IF Settled(i)
           THEN releases[stack[i].client] = 1 /\ stack[i].client \notin inUse
           ELSE releases[stack[i].client] = 0 /\ stack[i].client \in inUse

\* a withTransaction whose ROLLBACK was rejected has returned
C4_Witness ==
  /\ Depth = 1
  /\ Settled(1)
  /\ Top.client # 0
  /\ Top.raised = DbErr("ROLLBACK")
  /\ inUse = {}

\* C8: when the input of create or update fails validation, the call has
\* sent no statement before the Validation Error is raised.
C8_NoStatementBeforeValidationError ==
  \A i \in Calls :
    stack[i].thrownAt = "validate" =>
      \A n \in 1..Len(log) : log[n].depth # i

\* C9: create(D) with D lacking a required field inserts no row and, the
\* database answering its statements, raises the Validation Error that names
\* exactly the required fields missing from D.
C9_MissingRequiredNamedExactly ==
  \A i \in Calls :
    LET f == stack[i]
        missing == RequiredOf(f.tbl) \ f.data
    IN (Settled(i) /\ f.op = "create" /\ missing # {}) =>
         /\ f.row = 0
         /\ SentBy(i, "INSERT") = {}
         /\ f.dbOk =>
              /\ f.raised.kind = "MissingRequired"
              /\ f.raised.tbl = f.tbl
              /\ NamesExactly(f.raised, missing)

\* a create given one of two required fields has raised
C9_Witness ==
  /\ Depth = 1
  /\ Settled(1)
  /\ Top.op = "create"
  /\ Top.dbOk
  /\ Top.data \cap RequiredOf(Top.tbl) # {}
  /\ RequiredOf(Top.tbl) \ Top.data # {}
  /\ Top.raised.kind = "MissingRequired"

\* C10 as stated: create(D) and update(id, D) with D holding a key outside
\* fields and optional raise (the database answering) the Validation Error
\* that names exactly those keys.
C10_InvalidKeysNamedExactly ==
  \A i \in Calls :
    LET f == stack[i]
        invalid == f.data \ DeclaredIn(f.tbl)
    IN (Settled(i) /\ f.dbOk /\ invalid # {}) =>
         /\ f.raised.kind = "InvalidFields"
         /\ NamesExactly(f.raised, invalid)

\* C10 amended: update(id, D) names exactly the undeclared keys of D; so does
\* create(D) when D holds every required field, and when D also lacks a
\* required field create raises the missing-required error instead.
C10_InvalidKeysNamedUnlessRequiredMissing ==
  \A i \in Calls :
    LET f == stack[i]
        invalid == f.data \ DeclaredIn(f.tbl)
        named == f.raised.kind = "InvalidFields" /\ NamesExactly(f.raised, invalid)
    IN (Settled(i) /\ invalid # {}) =>
         /\ f.op = "update" => named
         /\ (f.op = "create" /\ f.dbOk) =>
              IF RequiredOf(f.tbl) \subseteq f.data
                THEN named
                ELSE f.raised.kind = "MissingRequired"

\* a create given every required field and an undeclared key has raised
C10_Witness ==
  /\ Depth = 1
  /\ Settled(1)
  /\ Top.op = "create"
  /\ Top.dbOk
  /\ RequiredOf(Top.tbl) \subseteq Top.data
  /\ "bogus" \in Top.data
  /\ Top.raised.kind = "InvalidFields"

(***************************************************************************)
(* Claims about create on typed tables (checked under SpecTyped).          *)
(***************************************************************************)
\* the data map passes validateData: every required field is a key of it
\* (its keys are declared fields by construction)
ValidFor(tbl, data) == Range(TypedSchema[tbl].required) \subseteq Keys(data)

\* C11: create(D) with every required field among D's keys and no undeclared
\* key succeeds, and no primary-key column of the record it returns is
\* null, whatever the shape of the table's key.
C11_CreateSucceedsWithKey ==
  (tcall.pc = "return" /\ ValidFor(tcall.tbl, tcall.data)) =>
    /\ tcall.raised = NoErr
    /\ \A name \in Range(TypedSchema[tcall.tbl].primaryKey) :
         tcall.row[name] # "null"

(***************************************************************************)
(* Claims about point lookups and the result cache (checked under          *)
(* SpecCache).  A call is judged when it has settled, before its caller    *)
(* goes on; the database answering means none of its statements failed.    *)
(***************************************************************************)
Returned(op) == call.pc = "return" /\ call.op = op

\* C12: findById(create(D).id), called right after create(D) returned,
\* returns (the database answering) the record create(D) returned.
C12_FindByIdAfterCreateRoundTrip ==
  (/\ Returned("findById")
   /\ lastCreated # NoRecord
   /\ lastCreated.id = call.id
   /\ call.dbOk) =>
     /\ call.raised = NoErr
     /\ call.result = lastCreated.val

\* C13: findById(id) returns null (the database answering) whenever the
\* table holds no row with that id at the time of the call.
C13_FindByIdNullWhenNoRow ==
  (Returned("findById") /\ call.before = None /\ call.dbOk) =>
    /\ call.raised = NoErr
    /\ call.result = "null"

\* C14: a findById(id) made while the accessor holds an entry for id returns
\* that entry and executes no statement, and a settled create, update or
\* delete has left every cache entry as it was when the call was made.
C14_CachedRecordServedAndKept ==
  /\ (Returned("findById") /\ call.entries[call.id] # None) =>
       /\ call.raised = NoErr
       /\ call.result = call.entries[call.id]
       /\ call.stmts = 0
  /\ (call.pc = "return" /\ call.op \in {"create", "update", "delete"}) =>
       cache = call.entries

\* a findById right after a write has returned the record as it was before
\* the write, without a statement
C14_Witness ==
  /\ Returned("findById")
  /\ call.stmts = 0
  /\ call.result \in Vals
  /\ call.result # tableRows[call.id]

\* C15: the cache gains or changes an entry only in a findById that executed
\* a statement and obtained the row it stores; a findById that finds no row
\* stores nothing, having executed its statement, and no other call adds an
\* entry.
C15_EntryOnlyFromLookupThatFoundRow ==
  call.pc = "return" =>
    /\ \A id \in KeyValues :
         (cache[id] # None /\ cache[id] # call.entries[id]) =>
           /\ call.op = "findById"
           /\ id = call.id
           /\ call.entries[id] = None
           /\ call.stmts = 1
           /\ cache[id] = call.result
           /\ cache[id] = tableRows[id]
    /\ (call.op = "findById" /\ call.entries[call.id] = None) =>
         /\ call.stmts = 1
         /\ call.result \notin Vals => cache[call.id] = None

\* a findById that found no row has returned for the second time in a row,
\* each time after a statement, and the cache holds nothing for the id
C15_Witness ==
  /\ Returned("findById")
  /\ call.before = None
  /\ call.result = "null"
  /\ call.stmts = 1
  /\ cache[call.id] = None
  /\ \E id \in KeyValues : cache[id] # None

\* C16: for an id the table holds no row under, delete(id) returns null and
\* raises nothing (the database answering), and update(id, data) raises.
C16_DeleteNullUpdateRaises ==
  (call.pc = "return" /\ call.before = None) =>
    /\ (call.op = "delete" /\ call.dbOk) =>
         call.raised = NoErr /\ call.result = "null"
    /\ call.op = "update" => call.raised # NoErr /\ call.result = None

\* a delete of an id the table holds no row under has returned null
C16_Witness ==
  /\ Returned("delete")
  /\ call.before = None
  /\ call.result = "null"
  /\ call.raised = NoErr
  /\ \E id \in KeyValues : tableRows[id] # None

(***************************************************************************)
(* Claims about update's relations map and updateMany (checked under       *)
(* SpecRel), judged when the call has settled.                             *)
(***************************************************************************)
RelReturned(op) == rcall.pc = "return" /\ rcall.op = op

\* the rows the filter of the call matched when the call was made
MatchedAtCall == {id \in KeyValues : rcall.before[id] = rcall.where}

\* C17: updateMany(filter, data) with data made of one or more declared
\* fields succeeds (the database answering), returns the number n of rows
\* the filter matched, and has set data's fields on exactly those rows, on
\* every table, those that declare relations included.
C17_UpdateManySetsMatchedRows ==
  (/\ RelReturned("updateMany")
   /\ rcall.data # {}
   /\ rcall.data \subseteq DeclaredIn(rcall.tbl)
   /\ rcall.dbOk) =>
     /\ rcall.raised = NoErr
     /\ rcall.count = Cardinality(MatchedAtCall)
     /\ \A id \in KeyValues :
          relRows[rcall.tbl][id] =
            IF id \in MatchedAtCall THEN rcall.val ELSE rcall.before[id]

\* C18: update(id, data) of a stored row, with declared fields and a
\* relations map in data, succeeds, has updated the base row and has applied
\* the side effect of every relation of the table named in the map.
C18_UpdateAppliesEmbeddedRelations ==
  (/\ RelReturned("update")
   /\ "relations" \in rcall.data
   /\ rcall.data \ {"relations"} # {}
   /\ rcall.data \ {"relations"} \subseteq DeclaredIn(rcall.tbl)
   /\ rcall.before[rcall.id] # None) =>
     /\ rcall.raised = NoErr
     /\ relRows[rcall.tbl][rcall.id] = rcall.val
     /\ rcall.applied = RelationOrder(rcall.tbl)

(***************************************************************************)
(* Claims about the relation side effects of create (checked under         *)
(* SpecOps).                                                               *)
(***************************************************************************)
\* C19: a related payload of a hasMany relation that carries an identifier
\* is applied with the related table's update, one without an identifier
\* with its create, in both cases with the foreign-key field set to the key
\* of the parent row.
C19_RelatedPayloadUpdateOrCreate ==
  \A i \in Calls :
    stack[i].parent # 0 =>
      /\ stack[i].op = IF "id" \in stack[i].data THEN "update" ELSE "create"
      /\ PostsRelation.foreignKey \in stack[i].data
      /\ stack[i].parent = stack[i - 1].row

\* C20: after create(D, {author: p}) has succeeded, the row it created is
\* stored with its foreign-key column equal to p, and the call has sent one
\* UPDATE for it.
C20_ForeignKeyStoredAfterCreate ==
  \A i \in Calls :
    LET f == stack[i]
    IN (/\ Settled(i)
        /\ f.op = "create"
        /\ f.raised = NoErr
        /\ SentBy(i, "UPDATE") # {}) =>
         /\ Cardinality(SentBy(i, "UPDATE")) = 1
         /\ \E r \in committed, e \in RelationEntries(f.tbl) :
              /\ r.tbl = f.tbl
              /\ r.id = f.row
              /\ e.name = "author"
              /\ r.fk = e.parent

(***************************************************************************)
(* Claims about relation resolution, continued (checked under SpecOps).    *)
(***************************************************************************)
\* the entry names no relation of the table, or a manyToMany relation
\* without junctionTable or relatedKey
Misconfigured(tbl, entry) ==
  \/ entry.name \notin DOMAIN Schema[tbl].relations
  \/ /\ Schema[tbl].relations[entry.name].type = "manyToMany"
     /\ \/ Schema[tbl].relations[entry.name].junctionTable = ""
        \/ Schema[tbl].relations[entry.name].relatedKey = ""

ConfigurationErrors == {"RelationNotFound", "InvalidManyToMany"}

QSettled(op) == qcall.pc = "return" /\ qcall.op = op

QReturned(op) == QSettled(op) /\ qcall.raised = NoErr

\* the rows that match the filter of the running call
Matched == Matching(qrows, qcall.where)

\* the number of pages N rows fill: the least k with k * pageSize >= N
PagesFor(n, pageSize) ==
  CHOOSE k \in 0..n : k * pageSize >= n /\ \A j \in 0..n : j * pageSize >= n => k <= j

\* C22: every error an accessor operation raises to its caller names the
\* table and the attempted operation, and no database error reaches the
\* caller without that context.
C22_ErrorsNameTableAndOperation ==
  (qcall.pc = "return" /\ qcall.raised # NoErr) =>
    /\ qcall.raised.tbl # ""
    /\ qcall.op \in Range(qcall.raised.wraps) \cup {qcall.raised.method}
    /\ qcall.raised.kind = "Database" => qcall.raised.wraps # <<>>

\* C23: for positive page and pageSize and N rows matching the filter,
\* paginate returns total = N, totalPages = ceil(N / pageSize), the
\* requested page and pageSize, and min(pageSize, max(0, N - (page - 1) *
\* pageSize)) of the matching rows.
C23_PaginateArithmetic ==
  QReturned("paginate") =>
    LET n == Cardinality(Matched)
    IN /\ qcall.result.total = n
       /\ qcall.result.totalPages = PagesFor(n, qcall.pageSize)
       /\ qcall.result.page = qcall.page
       /\ qcall.result.pageSize = qcall.pageSize
       /\ qcall.data \subseteq Matched
       /\ Cardinality(qcall.data) =
            Min(qcall.pageSize, Max(0, n - (qcall.page - 1) * qcall.pageSize))

\* C23 witness: paginate has returned a second page that is not full
C23_Witness ==
  /\ QReturned("paginate")
  /\ qcall.page = 2
  /\ qcall.data # {}
  /\ Cardinality(qcall.data) < qcall.pageSize
  /\ qcall.result.totalPages = 2

C30_FindAllFilterLimitOffset ==
  QReturned("findAll") =>
    LET n == Cardinality(Matched)
        left == Max(0, n - (IF qcall.offset.given THEN qcall.offset.n ELSE 0))
    IN /\ qcall.data \subseteq Matched
       /\ (~qcall.limit.given /\ ~qcall.offset.given) => qcall.data = Matched
       /\ qcall.limit.given => Cardinality(qcall.data) <= qcall.limit.n
       /\ Cardinality(qcall.data) =
            IF qcall.limit.given THEN Min(qcall.limit.n, left) ELSE left

(***************************************************************************)
(* Claims about softDelete and restore (checked under SpecMark).           *)
(***************************************************************************)
MarkSettled(op) == mcall.pc = "return" /\ mcall.op = op

\* the marker of the call's row before the call and now
MarkBefore == mcall.before[mcall.id]
MarkNow == marks[mcall.tbl][mcall.id]

C27_RelationsLoaded ==
  (lcall.pc = "return" /\ Len(lcall.asked) = 1 /\ lcall.dbOk) =>
    LET name == lcall.asked[1]
        declared == Schema[lcall.tbl].relations
    IN IF name \notin DOMAIN declared THEN lcall.raised # NoErr
       ELSE declared[name].type \in {"hasMany", "belongsTo"} =>
              /\ lcall.raised = NoErr
              /\ {[id |-> x.id, userid |-> x.userid] : x \in lcall.results}
                    = lcall.found
              /\ \A r \in lcall.results :
                   /\ Len(r.loaded) = 1
                   /\ r.loaded[1].name = name
                   /\ declared[name].type = "hasMany" =>
                        /\ r.loaded[1].data.kind = "list"
                        /\ r.loaded[1].data.ids =
                             {k \in KeyValues : posts[k] = r.id}
                   /\ declared[name].type = "belongsTo" =>
                        /\ r.loaded[1].data.kind = "row"
                        /\ r.loaded[1].data.ids = {r.userid}

(***************************************************************************)
(* Claims about dropTables (checked under SpecDrop).                       *)
(***************************************************************************)
\* C28: after dropTables has returned its message, no table of a model of
\* the schema exists, and a DROP has been attempted for every model,
\* whichever of them failed.
C28_NoDeclaredTableAfterDrop ==
  dcall.pc = "return" =>
    /\ dbTables \cap Range(ModelNames) = {}
    /\ dcall.attempted = ModelNames

(***************************************************************************)
(* Claims about create on typed tables, continued (checked under           *)
(* SpecTyped).                                                             *)
(***************************************************************************)
UuidFields(tbl) ==
  {name \in Range(FieldNames(tbl)) : FieldType(tbl, name) = "uuid"}

\* C25: create gives a generated identifier to every uuid field the caller
\* supplied no value for, a field whose key is absent included (the README
\* creates a User without passing id and reads newUser.id), and stores a
\* supplied uuid as it is.  The other required fields hold values.
C25_UuidAssignedWhenNotSupplied ==
  (/\ tcall.pc = "return"
   /\ UuidFields(tcall.tbl) # {}
   /\ \A name \in Range(TypedSchema[tcall.tbl].required) \ UuidFields(tcall.tbl) :
        tcall.data[name] = "value") =>
    /\ tcall.raised = NoErr
    /\ \A name \in UuidFields(tcall.tbl) : tcall.row[name] = "value"

(***************************************************************************)
(* Claims about withTransaction, continued (checked under SpecOps).        *)
(***************************************************************************)
\* the statements call i has sent on the connection it acquired
OnClient(i) ==
  {n \in (stack[i].logStart + 1)..Len(log) :
     log[n].depth = i /\ log[n].conn = stack[i].client}

Enders == {"COMMIT", "ROLLBACK"}

\* C29: on the connection withTransaction acquired, BEGIN is the first
\* statement and the only BEGIN, the statements of the unit of work follow
\* in the order they were sent, and COMMIT or ROLLBACK comes last (after a
\* COMMIT the database rejected, the ROLLBACK of the catch block is the
\* last); the connection is released after its last statement, and not
\* before.
C29_TransactionStatementOrder ==
  \A i \in Calls :
    LET f == stack[i]
        S == OnClient(i)
    IN (f.op = "create" /\ f.client # 0) =>
         /\ \A n \in S : (log[n].kind = "BEGIN") <=> (\A m \in S : n <= m)
         /\ \A n, m \in S :
              (n < m /\ log[n].kind \in Enders) =>
                /\ log[n].kind = "COMMIT"
                /\ log[m].kind = "ROLLBACK"
                /\ \A k \in S : k <= m
         /\ Settled(i) =>
              /\ S # {}
              /\ \E n \in S : log[n].kind \in Enders /\ \A m \in S : m <= n
              /\ f.client \notin inUse
              /\ releases[f.client] = 1
         /\ ~Settled(i) => (f.client \in inUse /\ releases[f.client] = 0)

\* C29 witness: a create has settled after BEGIN, its INSERT and COMMIT on
\* its connection, which it has released
C29_Witness ==
  /\ stack # <<>>
  /\ Settled(1)
  /\ stack[1].client # 0
  /\ Cardinality(OnClient(1)) = 3
  /\ \E n \in OnClient(1) : log[n].kind = "INSERT"
  /\ \E n \in OnClient(1) : log[n].kind = "COMMIT"
  /\ releases[stack[1].client] = 1

(***************************************************************************)
(* Claims about table creation (checked under SpecTable and SpecTyped).    *)
(***************************************************************************)
TableSettled == ctcall.pc = "return"

\* C31: for a belongsTo relation, the FOREIGN KEY constraint of every CREATE
\* TABLE that is sent references the primaryKey the target's table
\* definition declares, whatever the relation's own references field holds;
\* and when the target model or its primaryKey is absent, the call raises
\* the table-creation error and sends no CREATE TABLE.
C31_ForeignKeyReferencesTargetPrimaryKey ==
  (TableSettled /\ loaded.type = "belongsTo") =>
    /\ \A i \in 1..Len(ctcall.sent) :
         \A k \in 1..Len(ctcall.sent[i]) :
           /\ ctcall.sent[i][k].table = loaded.model
           /\ ctcall.sent[i][k].references = RefSchema[loaded.model].primaryKey
    /\ (loaded.model \notin DOMAIN RefSchema
        \/ RefSchema[loaded.model].primaryKey = "")
         => (ctcall.raised = CreateTableErr /\ ctcall.sent = <<>>)

\* C32: in a table CREATE TABLE has made, the columns marked PRIMARY KEY are
\* exactly the fields the table's declared primaryKey names (one field, or
\* every field of a composite key), and no other column.
C32_PrimaryKeyColumnsAsDeclared ==
  \A tbl \in TypedTables :
    catalog[tbl] # <<>> =>
      {catalog[tbl][k].name :
         k \in {n \in 1..Len(catalog[tbl]) : catalog[tbl][n].primaryKey}}
        = Range(TypedSchema[tbl].primaryKey)

(***************************************************************************)
(* Claims about statement parameters (checked under SpecBind).             *)
(***************************************************************************)
\* the entry the caller gave under the key
GivenUnder(entries, key) ==
  entries[CHOOSE i \in 1..Len(entries) : entries[i].key = key]

\* the write set: the keys of the data map that are not serial-tagged
WriteSet(tbl, data) ==
  {data[i].key : i \in {n \in 1..Len(data) :
                          FieldType(tbl, data[n].key) # "serial"}}

\* C33: in the statement create, update or updateMany builds, every
\* placeholder $k indexes the parameter list and the k-th parameter is the
\* value of the column $k is paired with: the processed value of that key
\* for the columns of the write set, in key order, then the id (update) or
\* the filter values in filter-key order (updateMany); the columns are the
\* write set, without the serial-tagged fields processFields drops.
C33_PlaceholdersBoundToTheirColumns ==
  bstmt.op # "none" =>
    LET columns == bstmt.columns
        filter == bstmt.filter
    IN /\ Len(bstmt.params) = Len(columns) + Len(filter)
       /\ {columns[i].column : i \in 1..Len(columns)}
            = WriteSet(bstmt.tbl, bstmt.data)
       /\ \A i \in 1..Len(columns) :
            /\ columns[i].placeholder = i
            /\ bstmt.params[columns[i].placeholder] =
                 [of |-> columns[i].column,
                  is |-> ProcessField(
                           FieldType(bstmt.tbl, columns[i].column),
                           GivenUnder(bstmt.data, columns[i].column).held)]
       /\ \A j \in 1..Len(filter) :
            /\ filter[j].placeholder = Len(columns) + j
            /\ bstmt.params[filter[j].placeholder] =
                 IF bstmt.op = "update" THEN [of |-> "id", is |-> bstmt.id]
                 ELSE [of |-> filter[j].column,
                       is |-> GivenUnder(bstmt.where, filter[j].column).held]
       /\ bstmt.op = "update" => Len(filter) = 1 /\ filter[1].column = "id"
       /\ bstmt.op = "updateMany" =>
            [j \in 1..Len(filter) |-> filter[j].column] = EntryKeys(bstmt.where)

\* an updateMany whose data map holds the serial id before another field,
\* with a two-key filter
C33_Witness ==
  /\ bstmt.op = "updateMany"
  /\ bstmt.tbl = "Ticket"
  /\ Len(bstmt.data) = 3
  /\ bstmt.data[1].key = "id"
  /\ Len(bstmt.columns) = 2
  /\ Len(bstmt.where) = 2

(***************************************************************************)
(* Claims about create's unit of work, continued (checked under SpecOps).  *)
(***************************************************************************)
\* rows of the related table that carry the key of the row create inserted
RelatedRowsOf(f) ==
  {r \in committed : f.row # 0 /\ r.tbl # f.tbl /\ r.fk = f.row}

\* junction rows whose source is the row create inserted
JunctionRowsOf(f) ==
  {t \in Targets : f.row # 0 /\ junction[<<f.row, t>>] > 0}

\* C34: when create(D, relations) has raised, none of the rows written on
\* its behalf is stored once it has returned: not the parent row (with or
\* without its foreign-key update), not a related row created from a
\* hasMany or hasOne payload, not a junction row of a manyToMany relation.
C34_NothingRemainsAfterCreateRaises ==
  \A i \in Calls :
    LET f == stack[i]
    IN (Settled(i) /\ f.op = "create" /\ f.raised # NoErr) =>
         /\ f.row # 0 => ~StoredIn(f.tbl, f.row)
         /\ RelatedRowsOf(f) = {}
         /\ JunctionRowsOf(f) = {}

(***************************************************************************)
(* Claims about concurrent creates over one pool (checked under            *)
(* SpecPoolLive).                                                          *)
(***************************************************************************)
\* C35: with a pool of PoolSize clients and a database that answers every
\* statement, every create a caller has invoked eventually returns, holding
\* no client, whatever the number of concurrent callers and also when the
\* create holds its transaction's client while a related create acquires
\* another.
C35_EveryCreateReturns ==
  \A c \in Callers :
    (creates[c][1].pc # "idle") ~>
      (creates[c][1].pc = "return" /\ creates[c][1].client = 0
       /\ creates[c][2] = IdleFrame)

(***************************************************************************)
(* Claims about concurrent reconciliation (checked under SpecRace).        *)
(***************************************************************************)
\* both calls have run to their end, no statement rejected
RaceDone == race.calls[1].pc = "done" /\ race.calls[2].pc = "done"

\* the targets the source has junction rows for
RowsOfSource == {t \in Targets : junction[<<race.source, t>>] > 0}

RaceTargets(i) == Range(race.calls[i].targetIds)

\* C36 as stated: two updateManyToManyRelation calls running concurrently for
\* one source with target sets T1 and T2 leave the junction rows of the
\* source equal to T1 or equal to T2, never a mixture of both.
C36_ConcurrentReconcileSerialOutcome ==
  RaceDone => (RowsOfSource = RaceTargets(1) \/ RowsOfSource = RaceTargets(2))

\* C36 as amended: the two calls leave rows for every target that is in both
\* T1 and T2 and for no target outside T1 and T2; when the statements of the
\* two calls did not interleave, the rows are those of T1 or of T2.
C36_ConcurrentReconcileWithinUnion ==
  RaceDone =>
    /\ (RaceTargets(1) \cap RaceTargets(2)) \subseteq RowsOfSource
    /\ RowsOfSource \subseteq (RaceTargets(1) \cup RaceTargets(2))
    /\ ~race.overlapped =>
         (RowsOfSource = RaceTargets(1) \/ RowsOfSource = RaceTargets(2))

\* two interleaved calls with different target sets have ended with the
\* rows of both, and a row the source had before is gone
C36_Witness ==
  /\ RaceDone
  /\ race.overlapped
  /\ RaceTargets(1) # RaceTargets(2)
  /\ RowsOfSource = RaceTargets(1) \cup RaceTargets(2)
  /\ RowsOfSource # RaceTargets(1)
  /\ RowsOfSource # RaceTargets(2)

(***************************************************************************)
(* Claims about how withTransaction ends (checked under SpecOps).          *)
(***************************************************************************)
\* the statements of the kind that call i has sent on its connection
EndersOf(i, kind) == {n \in OnClient(i) : log[n].kind = kind}

\* the unit of work of call i returned: nothing was thrown before COMMIT
UnitReturned(i) == stack[i].thrownAt \in {"none", "commit"}

\* C37 as stated: a withTransaction that acquired a connection sends exactly
\* one of COMMIT and ROLLBACK on it, COMMIT when the unit of work returned
\* and ROLLBACK when it raised, never both and never neither.
C37_ExactlyOneOfCommitRollback ==
  \A i \in Calls :
    (Settled(i) /\ stack[i].op = "create" /\ stack[i].client # 0) =>
      /\ Cardinality(EndersOf(i, "COMMIT")) + Cardinality(EndersOf(i, "ROLLBACK")) = 1
      /\ EndersOf(i, "COMMIT") # {} <=> UnitReturned(i)

\* C37 as amended: COMMIT is sent, once, exactly when the unit of work
\* returned, and ROLLBACK, once, exactly when the unit of work raised or the
\* database rejected BEGIN or COMMIT; so one of the two is always sent, and
\* both are sent only when COMMIT was rejected, the ROLLBACK after it.
C37_CommitOrRollbackBothOnlyOnRejectedCommit ==
  \A i \in Calls :
    (Settled(i) /\ stack[i].op = "create" /\ stack[i].client # 0) =>
      /\ Cardinality(EndersOf(i, "COMMIT")) = IF UnitReturned(i) THEN 1 ELSE 0
      /\ Cardinality(EndersOf(i, "ROLLBACK")) =
           IF stack[i].thrownAt # "none" THEN 1 ELSE 0
      /\ \A n \in EndersOf(i, "COMMIT"), m \in EndersOf(i, "ROLLBACK") : n < m

\* a create whose COMMIT the database rejected has settled: COMMIT and then
\* ROLLBACK were sent on its connection
C37_Witness ==
  /\ Depth = 1
  /\ Settled(1)
  /\ Top.client # 0
  /\ Top.thrownAt = "commit"
  /\ EndersOf(1, "COMMIT") # {}
  /\ EndersOf(1, "ROLLBACK") # {}

(***************************************************************************)
(* Claims about the two reconciliation strategies (checked under           *)
(* SpecStrategy).                                                          *)
(***************************************************************************)
\* C38: from every junction state and for every target list, the
\* delete-all-then-reinsert strategy and the incremental-diff strategy
\* leave the same multiset of junction rows for the source.
C38_StrategiesLeaveSameRows ==
  (strategy.pc = "run" /\ strategy.ran = {"diff", "reinsert"}) =>
    \A t \in Targets :
      strategy.diff[<<strategy.source, t>>]
        = strategy.reinsert[<<strategy.source, t>>]

(***************************************************************************)
(* Claims about paginate beside concurrent writers (checked under          *)
(* SpecQueryConcurrent).                                                   *)
(***************************************************************************)
\* min(pageSize, max(0, total - (page - 1) * pageSize))
PageLength(total, page, pageSize) ==
  Min(pageSize, Max(0, total - (page - 1) * pageSize))

\* C39 as stated: the data and total one paginate call returns describe one
\* state of the table, data.length <= total and data.length = min(pageSize,
\* max(0, total - (page - 1) * pageSize)), also when other callers insert or
\* delete matching rows while the call is running.
C39_PageAndTotalOfOneState ==
  QReturned("paginate") =>
    /\ Cardinality(qcall.data) <= qcall.result.total
    /\ Cardinality(qcall.data) =
         PageLength(qcall.result.total, qcall.page, qcall.pageSize)

\* C39 as amended: data holds at most pageSize rows; and when no other
\* caller inserted or deleted a matching row between the call's SELECT and
\* its COUNT, data and total describe one state of the table as stated.
C39_PageAndTotalOfOneStateUnlessWrittenBetween ==
  QReturned("paginate") =>
    /\ Cardinality(qcall.data) <= qcall.pageSize
    /\ ~qcall.between =>
         /\ Cardinality(qcall.data) <= qcall.result.total
         /\ Cardinality(qcall.data) =
              PageLength(qcall.result.total, qcall.page, qcall.pageSize)

\* paginate has returned a row in data with total 0: the row was deleted
\* after the SELECT and before the COUNT
C39_Witness ==
  /\ QReturned("paginate")
  /\ qcall.between
  /\ Cardinality(qcall.data) = 1
  /\ qcall.result.total = 0

\* C40: no step of a many-to-many reconciliation for source s (the loops of
\* updateManyToManyRelation and createManyToManyRelation) inserts, deletes
\* or changes a junction row whose foreign-key value differs from s: a
\* junction row changes only in an INSERT or DELETE step of the call and
\* only under the call's source, every statement the call sends is bound to
\* its source, and no other table's rows change.
C40_ReconcileTouchesOnlyItsSource ==
  [][/\ \A p \in DOMAIN junction :
          junction'[p] # junction[p] =>
            /\ m2m.pc \in {"insert", "delete"}
            /\ p[1] = m2m.source
     /\ \A i \in 1..Len(m2m'.log) : m2m'.log[i].source = m2m'.source
     /\ UNCHANGED <<opVars, recordVars>>]_vars

\* a reconciliation of source 1 has inserted one row and deleted another
\* while source 2 holds a row of its own
C40_Witness ==
  /\ m2m.op = "update"
  /\ m2m.pc = "done"
  /\ m2m.source = 1
  /\ \E i, k \in 1..Len(m2m.log) :
       m2m.log[i].kind = "INSERT" /\ m2m.log[k].kind = "DELETE"
  /\ \E t \in Targets : junction[<<2, t>>] > 0

====
